---- MODULE Spec2Model ----
(***************************************************************************)
(* A model of parts of the syft cataloging library:                        *)
(*   - file.LocationSet            (syft/file/location_set.go)             *)
(*   - format.DecoderCollection and the SPDX JSON decoder                  *)
(*   - format.EncoderCollection                                            *)
(*   - syft.GetSource                                                      *)
(*   - file.UnzipToDir and file.OpenZip                                    *)
(*   - sbom.SBOM (relationships)                                           *)
(*   - cpe.BySourceThenSpecificity and cpe.Merge                           *)
(*   - pkgcataloging.SelectionRequest                                      *)
(*   - file.LocationSet.Hash and file.CoordinateSet                        *)
(*   - executable.Cataloger                                                *)
(*   - file.OpenZip: the ZIP64 records and the file handle                 *)
(*   - file.Location.WithAnnotation, sbom.SBOM.AllCoordinates              *)
(*   - options.EncodersConfig.Encoders                                     *)
(* Each component has its own specification (SpecLocationSet, ...); the    *)
(* variables of the other components keep their initial value there.       *)
(* Go strings whose characters matter are sequences of one-character       *)
(* strings; the empty Go string is << >>.                                  *)
(***************************************************************************)
EXTENDS Integers, Sequences, FiniteSets, TLC

VARIABLES
    \* ---- file.LocationSet
    set,          \* LocationSet.set: LocationData -> address of the Annotations map
    setIsNil,     \* LocationSet.set == nil
    heap,         \* the Annotations maps that exist, by address (Go maps are references)
    lsPanicked,   \* a run-time panic ended the program
    lastOp,       \* the last LocationSet operation: whether the set contained its
                  \* argument before it, and by how much the number of entries changed
    \* ---- format.DecoderCollection
    decoders,     \* DecoderCollection.decoders
    stream,       \* the io.Reader handed to Decode
    dcPc,         \* position in DecoderCollection.Decode
    dcI,          \* index of the decoder the range loop is at
    bestID,       \* Decode's local bestID
    dcCalls,      \* the calls made on the decoders, in order
    dcResult,     \* what Decode returned
    \* ---- format.EncoderCollection
    encoders,     \* EncoderCollection.encoders
    ecQuery,      \* the last lookup
    ecResult,     \* what the last lookup returned
    \* ---- syft.GetSource
    gsPc,         \* position in GetSource
    gsCfg,        \* the configuration of the call
    gsI,          \* index of the provider the range loop is at
    errs,         \* GetSource's local errs
    fileNotfound, \* GetSource's local fileNotfound
    gsCalls,      \* what each provider called so far returned
    gsResult,     \* what GetSource returned
    \* ---- file.UnzipToDir
    zxPc,         \* position in UnzipToDir
    zxTarget,     \* targetDir
    zxEntries,    \* zipReader.Reader.File: the entries of the archive, in order
    zxI,          \* index of the entry the range loop is at
    zxWritten,    \* the paths created or written on disk, cleaned
    zxLog,        \* what the visitor did with each entry visited so far
    zxResult,     \* the error UnzipToDir returned
    \* ---- file.OpenZip
    zoFile,       \* the file at filepath: its layout
    zoPc,         \* position of the call
    zoResult,     \* what findArchiveStartOffset or OpenZip returned
    \* ---- sbom.SBOM
    sbRelationships, \* SBOM.Relationships
    sbCall,       \* the last call on the SBOM: its arguments, Relationships before it
    sbResult,     \* what the call returned
    \* ---- cpe.BySourceThenSpecificity
    coB,          \* the slice of CPEs Less is called on
    coLess,       \* what Less returned for each pair of indices
    \* ---- cpe.Merge
    mgA,          \* Merge's a
    mgB,          \* Merge's b
    mgResult,     \* what Merge(a, b) and Merge(b, a) returned
    \* ---- pkgcataloging.SelectionRequest
    srRequest,    \* the SelectionRequest
    srCall,       \* the last call of WithExpression: its arguments and the request before it
    \* ---- file.LocationSet, the annotations of its entries
    anSet,        \* LocationSet.set of a second set, the one whose annotations are followed
    anHeap,       \* the Annotations maps that exist, by address
    anPanicked,   \* a run-time panic ended the program
    anAdded,      \* for each entry, the annotations of the locations added with its key: the first value of each annotation key
    \* ---- file.LocationSet.Hash
    hsSets,       \* two LocationSets: for each, its map (LocationData to Annotations) or nil
    hsResult,     \* what Hash returned for each of the two sets, and the Paths it hashed
    \* ---- executable.Cataloger
    exCfg,        \* what the resolver gives: the lookup and glob errors, the candidate locations
    exPc,         \* position in Catalog
    exI,          \* index of the location the range loop is at
    exResults,    \* Catalog's results
    exLog,        \* what the loop body did with each location visited so far
    exReturn,     \* what Catalog returned
    \* ---- Identify and Decode calls on one stream
    sqStream,     \* the one stream the calls are made on
    sqCall,       \* the last call, the position it found, the offsets it read from, its result
    sqN,          \* calls made so far
    \* ---- findArchiveStartOffset on the contents of the records
    zrIn,         \* the file findArchiveStartOffset reads: its size, where its directory end record lies and what it holds, its ZIP64 locator and end record
    zrPc,         \* position of the call
    zrOut,        \* what the call did and returned
    \* ---- OpenZip: the file handle
    ohIn,         \* which steps of OpenZip succeed on the file, the files of the archive, the file the visitor fails at, whether Close succeeds
    ohPc,         \* position of the caller of OpenZip
    ohI,          \* index of the file TraverseFilesInZip is at
    ohHandle,     \* the file handle os.Open gave: none, open or closed
    ohResult,     \* what OpenZip returned, and the error of the caller
    \* ---- Location.WithAnnotation
    waHeap,       \* the Annotations maps that exist, by address
    waOrig,       \* the address of the Annotations map of the caller's location, NilMap if it is nil
    waEntry,      \* the address of the map of the LocationSet entry added from the caller's location
    waCall,       \* the last call: its arguments, the heap it found, the map of the location it returned
    waN,          \* calls made so far
    \* ---- SBOM.AllCoordinates
    acSBOM,       \* the SBOM AllCoordinates is called on: the keys of its artifact maps and its relationships
    acResult,     \* whether AllCoordinates was called, and what it returned
    \* ---- EncodersConfig.Encoders
    enCfg,        \* the EncodersConfig and which constructors fail
    enResult      \* whether Encoders was called, the encoders and the error it returned

lsVars == <<set, setIsNil, heap, lsPanicked, lastOp>>
dcVars == <<decoders, stream, dcPc, dcI, bestID, dcCalls, dcResult>>
ecVars == <<encoders, ecQuery, ecResult>>
gsVars == <<gsPc, gsCfg, gsI, errs, fileNotfound, gsCalls, gsResult>>
zxVars == <<zxPc, zxTarget, zxEntries, zxI, zxWritten, zxLog, zxResult>>
zoVars == <<zoFile, zoPc, zoResult>>
sbVars == <<sbRelationships, sbCall, sbResult>>
coVars == <<coB, coLess>>
mgVars == <<mgA, mgB, mgResult>>
srVars == <<srRequest, srCall>>
anVars == <<anSet, anHeap, anPanicked, anAdded>>
hsVars == <<hsSets, hsResult>>
exVars == <<exCfg, exPc, exI, exResults, exLog, exReturn>>
sqVars == <<sqStream, sqCall, sqN>>
zrVars == <<zrIn, zrPc, zrOut>>
ohVars == <<ohIn, ohPc, ohI, ohHandle, ohResult>>
waVars == <<waHeap, waOrig, waEntry, waCall, waN>>
acVars == <<acSBOM, acResult>>
enVars == <<enCfg, enResult>>
vars == <<lsVars, dcVars, ecVars, gsVars, zxVars, zoVars, sbVars, coVars, mgVars, srVars, anVars, hsVars, exVars, sqVars, zrVars, ohVars, waVars, acVars, enVars>>

\* What the operations of one component leave alone: the other components.
lsRest == <<dcVars, ecVars, gsVars, zxVars, zoVars, sbVars, coVars, mgVars, srVars, anVars, hsVars, exVars, sqVars, zrVars, ohVars, waVars, acVars, enVars>>
dcRest == <<lsVars, ecVars, gsVars, zxVars, zoVars, sbVars, coVars, mgVars, srVars, anVars, hsVars, exVars, sqVars, zrVars, ohVars, waVars, acVars, enVars>>
ecRest == <<lsVars, dcVars, gsVars, zxVars, zoVars, sbVars, coVars, mgVars, srVars, anVars, hsVars, exVars, sqVars, zrVars, ohVars, waVars, acVars, enVars>>
gsRest == <<lsVars, dcVars, ecVars, zxVars, zoVars, sbVars, coVars, mgVars, srVars, anVars, hsVars, exVars, sqVars, zrVars, ohVars, waVars, acVars, enVars>>
zxRest == <<lsVars, dcVars, ecVars, gsVars, zoVars, sbVars, coVars, mgVars, srVars, anVars, hsVars, exVars, sqVars, zrVars, ohVars, waVars, acVars, enVars>>
zoRest == <<lsVars, dcVars, ecVars, gsVars, zxVars, sbVars, coVars, mgVars, srVars, anVars, hsVars, exVars, sqVars, zrVars, ohVars, waVars, acVars, enVars>>
sbRest == <<lsVars, dcVars, ecVars, gsVars, zxVars, zoVars, coVars, mgVars, srVars, anVars, hsVars, exVars, sqVars, zrVars, ohVars, waVars, acVars, enVars>>
coRest == <<lsVars, dcVars, ecVars, gsVars, zxVars, zoVars, sbVars, mgVars, srVars, anVars, hsVars, exVars, sqVars, zrVars, ohVars, waVars, acVars, enVars>>
mgRest == <<lsVars, dcVars, ecVars, gsVars, zxVars, zoVars, sbVars, coVars, srVars, anVars, hsVars, exVars, sqVars, zrVars, ohVars, waVars, acVars, enVars>>
srRest == <<lsVars, dcVars, ecVars, gsVars, zxVars, zoVars, sbVars, coVars, mgVars, anVars, hsVars, exVars, sqVars, zrVars, ohVars, waVars, acVars, enVars>>
anRest == <<lsVars, dcVars, ecVars, gsVars, zxVars, zoVars, sbVars, coVars, mgVars, srVars, hsVars, exVars, sqVars, zrVars, ohVars, waVars, acVars, enVars>>
hsRest == <<lsVars, dcVars, ecVars, gsVars, zxVars, zoVars, sbVars, coVars, mgVars, srVars, anVars, exVars, sqVars, zrVars, ohVars, waVars, acVars, enVars>>
exRest == <<lsVars, dcVars, ecVars, gsVars, zxVars, zoVars, sbVars, coVars, mgVars, srVars, anVars, hsVars, sqVars, zrVars, ohVars, waVars, acVars, enVars>>
sqRest == <<lsVars, dcVars, ecVars, gsVars, zxVars, zoVars, sbVars, coVars, mgVars, srVars, anVars, hsVars, exVars, zrVars, ohVars, waVars, acVars, enVars>>
zrRest == <<lsVars, dcVars, ecVars, gsVars, zxVars, zoVars, sbVars, coVars, mgVars, srVars, anVars, hsVars, exVars, sqVars, ohVars, waVars, acVars, enVars>>
ohRest == <<lsVars, dcVars, ecVars, gsVars, zxVars, zoVars, sbVars, coVars, mgVars, srVars, anVars, hsVars, exVars, sqVars, zrVars, waVars, acVars, enVars>>
waRest == <<lsVars, dcVars, ecVars, gsVars, zxVars, zoVars, sbVars, coVars, mgVars, srVars, anVars, hsVars, exVars, sqVars, zrVars, ohVars, acVars, enVars>>
acRest == <<lsVars, dcVars, ecVars, gsVars, zxVars, zoVars, sbVars, coVars, mgVars, srVars, anVars, hsVars, exVars, sqVars, zrVars, ohVars, waVars, enVars>>
enRest == <<lsVars, dcVars, ecVars, gsVars, zxVars, zoVars, sbVars, coVars, mgVars, srVars, anVars, hsVars, exVars, sqVars, zrVars, ohVars, waVars, acVars>>

----------------------------------------------------------------------------
(* Strings as sequences of characters *)

Range(f) == { f[i] : i \in DOMAIN f }

Str1(a) == <<a>>
EmptyStr == << >>

\* strings.HasPrefix
HasPrefix(s, p) == Len(s) >= Len(p) /\ SubSeq(s, 1, Len(p)) = p

\* The tail of s from position i on.
From(s, i) == SubSeq(s, i, Len(s))

----------------------------------------------------------------------------
(* file.LocationSet *)

\* Bound of the LocationSet model: the Annotations maps allocated.
MaxMaps == 2

AnnKeys == {"evidence"}
AnnValues == {"primary", "supporting"}

\* file.Coordinates
Coordinates(realPath, fileSystemID) ==
    [RealPath |-> realPath, FileSystemID |-> fileSystemID]

\* file.LocationData: coordinates, access path, file reference (by its id).
LocationData(coordinates, accessPath, ref) ==
    [Coordinates |-> coordinates, AccessPath |-> accessPath, ref |-> ref]

\* The LocationData values of the model: one location, the same file seen
\* through a link, the same with another file reference, the same path in
\* another layer, and another path.
LocationDatas ==
    { LocationData(Coordinates("/a", ""), "/a", "ref1"),
      LocationData(Coordinates("/a", ""), "/ln", "ref1"),
      LocationData(Coordinates("/a", ""), "/a", "ref2"),
      LocationData(Coordinates("/a", "l1"), "/a", "ref1"),
      LocationData(Coordinates("/b", ""), "/b", "ref1") }

\* The contents a map[string]string can have.
AnnMaps == UNION { [D -> AnnValues] : D \in SUBSET AnnKeys }

\* The nil map.
NilMap == 0

\* The contents of the map at address a; reading a nil map reads an empty one.
MapAt(h, a) == IF a = NilMap THEN << >> ELSE h[a]

\* LocationMetadata.merge(other) on the map contents: every key of other
\* that m lacks is added; a key both have keeps m's value (equal values are
\* rewritten, different ones are reported and skipped).
mergeMaps(m, other) ==
    [k \in DOMAIN m \cup DOMAIN other |-> IF k \in DOMAIN m THEN m[k] ELSE other[k]]

\* merge assigns into m.Annotations whenever other has a key that is not a
\* conflict; assigning into a nil map panics.
mergePanics(h, mAddr, otherAddr) ==
    /\ mAddr = NilMap
    /\ DOMAIN MapAt(h, otherAddr) # {}

\* The conflicts merge reports (and LocationSet.Add only logs).
mergeConflicts(m, other) ==
    { k \in DOMAIN m \cap DOMAIN other : m[k] # other[k] }

\* LocationSet.Contains
Contains(s, isNil, data) ==
    IF isNil THEN FALSE ELSE data \in DOMAIN s

\* The heap after merge(m, other) where m.Annotations lives at mAddr.
heapAfterMerge(h, mAddr, otherAddr) ==
    IF mAddr = NilMap
    THEN h
    ELSE [h EXCEPT ![mAddr] = mergeMaps(h[mAddr], MapAt(h, otherAddr))]

\* setAfterAdd with the entries keyed by the coordinates alone.
setAfterAddByCoordinates(s, data, addr) ==
    IF \E k \in DOMAIN s : k.Coordinates = data.Coordinates
    THEN s
    ELSE [k \in DOMAIN s \cup {data} |-> IF k = data THEN addr ELSE s[k]]

\* The map of the set after Add's loop body ran for the location (data, addr).
setAfterAdd(s, data, addr) ==
    IF data \in DOMAIN s
    THEN s
    ELSE [k \in DOMAIN s \cup {data} |-> IF k = data THEN addr ELSE s[k]]

\* LocationSet.Add(l) for one location l = (data, annotations at addr) on
\* heap h. Add(l1, ..., lk) runs this body once per argument, in order.
AddLocation(h, data, addr) ==
    /\ ~lsPanicked
    /\ IF data \in DOMAIN set /\ mergePanics(h, set[data], addr)
       THEN /\ lsPanicked' = TRUE
            /\ set' = set
            /\ heap' = h
       ELSE /\ lsPanicked' = FALSE
            /\ set' = setAfterAdd(set, data, addr)
            /\ heap' = IF data \in DOMAIN set
                       THEN heapAfterMerge(h, set[data], addr)
                       ELSE h
    /\ setIsNil' = FALSE
    /\ lastOp' = [op |-> "Add", had |-> Contains(set, setIsNil, data),
                  delta |-> Cardinality(DOMAIN set') - Cardinality(DOMAIN set)]
    /\ UNCHANGED lsRest

\* Add of a location whose Annotations map is nil or is a map that exists.
Add ==
    \E data \in LocationDatas, addr \in {NilMap} \cup (1 .. Len(heap)) :
        AddLocation(heap, data, addr)

\* Add of a location built with a map of its own (NewLocation and the other
\* constructors, WithAnnotation on a fresh location).
AddFresh ==
    /\ Len(heap) < MaxMaps
    /\ \E data \in LocationDatas, m \in AnnMaps :
        AddLocation(Append(heap, m), data, Len(heap) + 1)

\* LocationSet.Remove(l)
Remove ==
    /\ ~lsPanicked
    /\ \E data \in LocationDatas :
        /\ set' = IF setIsNil
                  THEN set
                  ELSE [k \in DOMAIN set \ {data} |-> set[k]]
        /\ lastOp' = [op |-> "Remove", had |-> Contains(set, setIsNil, data),
                      delta |-> Cardinality(DOMAIN set') - Cardinality(DOMAIN set)]
    /\ UNCHANGED <<setIsNil, heap, lsPanicked>>
    /\ UNCHANGED lsRest

lsInit ==
    /\ set = << >>
    /\ setIsNil = TRUE
    /\ heap = << >>
    /\ lsPanicked = FALSE
    /\ lastOp = [op |-> "New", had |-> FALSE, delta |-> 0]

----------------------------------------------------------------------------
(* The SPDX JSON decoder and format.DecoderCollection *)

\* Bound of the DecoderCollection model: the longest collection built from
\* arbitrary decoders.
MaxDecoders == 3

\* spdxutil.JSONFormatID, the ID of package spdxjson.
ID == "spdx-json"

NoError == "nil"
NoSBOM == "nil"

Lower == [c \in {"S", "P", "D", "X", "J", "O", "N"} |->
            CASE c = "S" -> "s" [] c = "P" -> "p" [] c = "D" -> "d" [] c = "X" -> "x"
              [] c = "J" -> "j" [] c = "O" -> "o" [] c = "N" -> "n"]

\* strings.ToLower
ToLower(s) == [i \in 1 .. Len(s) |-> IF s[i] \in DOMAIN Lower THEN Lower[s[i]] ELSE s[i]]

\* strings.Split(s, sep) for a one-character separator.
RECURSIVE Split(_, _)
Split(s, sep) ==
    IF \A i \in 1 .. Len(s) : s[i] # sep
    THEN <<s>>
    ELSE LET i == CHOOSE j \in 1 .. Len(s) :
                      s[j] = sep /\ \A k \in 1 .. (j - 1) : s[k] # sep
         IN  <<SubSeq(s, 1, i - 1)>> \o Split(From(s, i + 1), sep)

\* getFormatInfo: "SPDX-2.3" gives (ID, "2.3").
getFormatInfo(spdxVersion) ==
    IF ~HasPrefix(ToLower(spdxVersion), <<"s", "p", "d", "x", "-">>)
    THEN [id |-> "", version |-> EmptyStr]
    ELSE LET fields == Split(spdxVersion, "-")
         IN  IF Len(fields) # 2
             THEN [id |-> ID, version |-> EmptyStr]
             ELSE [id |-> ID, version |-> fields[2]]

\* The documents a stream can hold. json: the first JSON value of the stream
\* decodes into a struct with the spdxVersion field; bodyOK: spdxJson.Read
\* accepts the document; modelOK: spdxhelpers.ToSyftModel converts it.
SpdxVersionStrings ==
    { EmptyStr,
      <<"S", "P", "D", "X", "-", "2", ".", "3">>,
      <<"s", "p", "d", "x", "-", "2", ".", "3">>,
      <<"S", "P", "D", "X", "-", "9", ".", "9">>,
      <<"S", "P", "D", "X", "-", "2", ".", "3", "-", "r", "c">>,
      <<"S", "P", "D", "X", "-">>,
      <<"1", ".", "5">> }

Docs ==
    { [json |-> FALSE, spdxVersion |-> EmptyStr, bodyOK |-> FALSE, modelOK |-> FALSE] }
    \cup
    { [json |-> TRUE, spdxVersion |-> v, bodyOK |-> b, modelOK |-> m] :
        v \in SpdxVersionStrings, b \in BOOLEAN, m \in BOOLEAN }

\* An SPDX 2.3 document that reads and converts.
GoodDoc ==
    [json |-> TRUE, spdxVersion |-> <<"S", "P", "D", "X", "-", "2", ".", "3">>,
     bodyOK |-> TRUE, modelOK |-> TRUE]

\* What is read from a position that is not the start: not a JSON document.
Truncated == [json |-> FALSE, spdxVersion |-> EmptyStr, bodyOK |-> FALSE, modelOK |-> FALSE]

NilReader == [kind |-> "nil", seekOK |-> FALSE, doc |-> Truncated, pos |-> 0]

\* The readers handed to Decode: nil, or a seekable stream at its start.
\* seekOK: Seek succeeds on the stream.
Readers ==
    { NilReader }
    \cup { [kind |-> "seekable", seekOK |-> TRUE, doc |-> d, pos |-> 0] :
             d \in { x \in Docs : x.bodyOK \/ ~x.modelOK } }
    \cup { [kind |-> "seekable", seekOK |-> FALSE, doc |-> GoodDoc, pos |-> 0] }

\* The document a read at the stream's current position sees.
ReadAt(st) == IF st.pos = 0 THEN st.doc ELSE Truncated

\* stream.SeekableReader: an error for a nil reader, the reader itself if it
\* can seek.
SeekableReaderFails(st) == st.kind = "nil"

\* reader.Seek(0, io.SeekStart)
SeekStart(st) == IF st.seekOK THEN [st EXCEPT !.pos = 0] ELSE st

\* A read of the stream leaves the position past the start.
AfterRead(st) == [st EXCEPT !.pos = 1]

\* decoder.Identify without its Seek: it reads from where the stream is.
spdxIdentifyFromPosition(st) ==
    IF SeekableReaderFails(st)
    THEN [id |-> "", version |-> EmptyStr]
    ELSE LET doc == ReadAt(st)
         IN  IF ~doc.json
             THEN [id |-> "", version |-> EmptyStr]
             ELSE LET info == getFormatInfo(doc.spdxVersion)
                  IN  IF info.version = EmptyStr \/ info.id # ID
                      THEN [id |-> "", version |-> EmptyStr]
                      ELSE info

\* decoder.Identify of package spdxjson: the (id, version) it returns.
spdxIdentify(st) ==
    IF SeekableReaderFails(st)
    THEN [id |-> "", version |-> EmptyStr]
    ELSE IF ~st.seekOK
    THEN [id |-> "", version |-> EmptyStr]
    ELSE LET doc == ReadAt(SeekStart(st))
         IN  IF ~doc.json
             THEN [id |-> "", version |-> EmptyStr]
             ELSE LET info == getFormatInfo(doc.spdxVersion)
                  IN  IF info.version = EmptyStr \/ info.id # ID
                      THEN [id |-> "", version |-> EmptyStr]
                      ELSE info

\* The stream after decoder.Identify.
spdxAfterIdentify(st) ==
    IF SeekableReaderFails(st) \/ ~st.seekOK
    THEN st
    ELSE AfterRead(SeekStart(st))

Result(sbom, id, version, err) ==
    [sbom |-> sbom, id |-> id, version |-> version, err |-> err]

\* spdxDecode that reports no id and version when the body cannot be read.
spdxDecodeAnonymousFailure(st) ==
    LET info == spdxIdentify(st)
    IN  IF info.id = ID /\ info.version # EmptyStr
           /\ ReadAt(SeekStart(st)).bodyOK /\ ReadAt(SeekStart(st)).modelOK
        THEN Result("sbom", info.id, info.version, NoError)
        ELSE Result(NoSBOM, "", EmptyStr, "unable to decode spdx json")

\* decoder.Decode of package spdxjson.
spdxDecode(st) ==
    IF SeekableReaderFails(st)
    THEN Result(NoSBOM, "", EmptyStr, "no bytes provided")
    ELSE LET info == spdxIdentify(st)
             st1 == spdxAfterIdentify(st)
         IN  IF info.id # ID
             THEN Result(NoSBOM, "", EmptyStr, "not a spdx json document")
             ELSE IF info.version = EmptyStr
             THEN Result(NoSBOM, "", EmptyStr, "unsupported spdx json document version")
             ELSE IF ~st1.seekOK
             THEN Result(NoSBOM, "", EmptyStr, "unable to seek to start of SPDX JSON SBOM")
             ELSE LET doc == ReadAt(SeekStart(st1))
                  IN  IF ~doc.bodyOK
                      THEN Result(NoSBOM, info.id, info.version, "unable to decode spdx json")
                      ELSE IF ~doc.modelOK
                      THEN Result(NoSBOM, info.id, info.version, "unable to convert to syft model")
                      ELSE Result("sbom", info.id, info.version, NoError)

\* The stream after decoder.Decode.
spdxAfterDecode(st) ==
    IF SeekableReaderFails(st)
    THEN st
    ELSE LET info == spdxIdentify(st)
             st1 == spdxAfterIdentify(st)
         IN  IF info.id # ID \/ info.version = EmptyStr \/ ~st1.seekOK
             THEN st1
             ELSE AfterRead(SeekStart(st1))

\* spdxjson.NewFormatDecoder()
SpdxJSONDecoder ==
    [kind |-> "spdxjson", id |-> ID, version |-> EmptyStr, decodeOK |-> TRUE]

\* Other implementations of sbom.FormatDecoder: Identify returns (id, version),
\* Decode succeeds or fails; both read the stream.
StubDecoder(id, version, ok) ==
    [kind |-> "stub", id |-> id, version |-> version, decodeOK |-> ok]

StubDecoders ==
    { StubDecoder("", EmptyStr, TRUE),
      StubDecoder("cyclonedx-json", EmptyStr, TRUE),
      StubDecoder("", <<"1", ".", "5">>, TRUE),
      StubDecoder("syft-json", <<"1", "6">>, TRUE),
      StubDecoder("syft-json", <<"1", "6">>, FALSE) }

\* FormatDecoder.Identify of decoder d on stream st.
Identify(d, st) ==
    IF d.kind = "spdxjson"
    THEN spdxIdentify(st)
    ELSE [id |-> d.id, version |-> d.version]

AfterIdentify(d, st) ==
    IF d.kind = "spdxjson" THEN spdxAfterIdentify(st) ELSE AfterRead(st)

\* FormatDecoder.Decode of decoder d on stream st.
Decode(d, st) ==
    IF d.kind = "spdxjson"
    THEN spdxDecode(st)
    ELSE IF d.decodeOK
         THEN Result("sbom", d.id, d.version, NoError)
         ELSE Result(NoSBOM, d.id, d.version, "stub decode failed")

AfterDecode(d, st) ==
    IF d.kind = "spdxjson" THEN spdxAfterDecode(st) ELSE AfterRead(st)

\* format.Decoders(): syftjson, cyclonedxxml, cyclonedxjson, spdxtagvalue,
\* spdxjson. The first four identify none of the documents of Docs, which
\* are SPDX JSON documents or no SBOM at all.
Decoders ==
    << StubDecoder("", EmptyStr, TRUE), StubDecoder("", EmptyStr, TRUE),
       StubDecoder("", EmptyStr, TRUE), StubDecoder("", EmptyStr, TRUE),
       SpdxJSONDecoder >>

\* The collections NewDecoderCollection is called with.
DecoderLists ==
    { Decoders } \cup
    UNION { [1 .. n -> StubDecoders \cup {SpdxJSONDecoder}] : n \in 0 .. MaxDecoders }

\* identified that is content with a format id.
identifiedByID(id, version) == ~(id = "")

\* The test of Decode's loop: the decoder identified the format and version.
identified(id, version) == ~(id = "" \/ version = EmptyStr)

\* DecoderCollection.Decode, entry: the nil check and the locals.
DecodeBegin ==
    /\ dcPc = "idle"
    /\ \E r \in Readers :
        /\ stream' = r
        /\ IF r.kind = "nil"
           THEN /\ dcPc' = "done"
                /\ dcResult' = Result(NoSBOM, "", EmptyStr, "no SBOM bytes provided")
           ELSE /\ dcPc' = "loop"
                /\ dcResult' = dcResult
    /\ dcI' = 1
    /\ bestID' = ""
    /\ dcCalls' = << >>
    /\ UNCHANGED decoders
    /\ UNCHANGED dcRest

\* One iteration of the range loop: Identify, then either continue or
\* return d.Decode(reader).
DecodeIterate ==
    /\ dcPc = "loop"
    /\ dcI <= Len(decoders)
    /\ LET d == decoders[dcI]
           got == Identify(d, stream)
           st1 == AfterIdentify(d, stream)
       IN  IF identified(got.id, got.version)
           THEN /\ dcResult' = Decode(d, st1)
                /\ stream' = AfterDecode(d, st1)
                /\ dcCalls' = dcCalls \o << <<"Identify", dcI>>, <<"Decode", dcI>> >>
                /\ dcPc' = "done"
                /\ UNCHANGED <<bestID, dcI>>
           ELSE /\ bestID' = IF got.id # "" THEN got.id ELSE bestID
                /\ dcI' = dcI + 1
                /\ stream' = st1
                /\ dcCalls' = Append(dcCalls, <<"Identify", dcI>>)
                /\ UNCHANGED <<dcResult, dcPc>>
    /\ UNCHANGED decoders
    /\ UNCHANGED dcRest

\* noDecoderResult that never reports an unsupported version.
noDecoderResultUnrecognized(best) ==
    Result(NoSBOM, "", EmptyStr, "sbom format not recognized")

\* What Decode returns after the loop.
noDecoderResult(best) ==
    IF best # ""
    THEN Result(NoSBOM, best, EmptyStr, "version is not supported")
    ELSE Result(NoSBOM, "", EmptyStr, "sbom format not recognized")

\* After the loop: no decoder identified both id and version.
DecodeEnd ==
    /\ dcPc = "loop"
    /\ dcI > Len(decoders)
    /\ dcResult' = noDecoderResult(bestID)
    /\ dcPc' = "done"
    /\ UNCHANGED <<decoders, stream, dcI, bestID, dcCalls>>
    /\ UNCHANGED dcRest

\* A direct call of the SPDX JSON decoder's Decode, outside any collection.
SpdxDecodeCall ==
    /\ dcPc = "idle"
    /\ decoders = <<SpdxJSONDecoder>>
    /\ \E r \in Readers :
        /\ dcResult' = spdxDecode(r)
        /\ stream' = spdxAfterDecode(r)
    /\ dcCalls' = << <<"Direct", 1>> >>
    /\ dcPc' = "done"
    /\ UNCHANGED <<decoders, dcI, bestID>>
    /\ UNCHANGED dcRest

dcIdle ==
    /\ stream = NilReader
    /\ dcPc = "idle"
    /\ dcI = 1
    /\ bestID = ""
    /\ dcCalls = << >>
    /\ dcResult = Result(NoSBOM, "", EmptyStr, NoError)

dcInit ==
    /\ decoders \in DecoderLists
    /\ dcIdle

----------------------------------------------------------------------------
(* format.EncoderCollection *)

\* Bound of the EncoderCollection model: the longest collection.
MaxEncoders == 2

\* sbom.AnyVersion
AnyVersion == EmptyStr

\* The byte of each character that occurs in a version.
Code == [c \in {"*", ".", "0", "1", "2", "3", "9"} |->
            CASE c = "*" -> 42 [] c = "." -> 46 [] c = "0" -> 48 [] c = "1" -> 49
              [] c = "2" -> 50 [] c = "3" -> 51 [] c = "9" -> 57]

\* Go's > on strings: byte-wise lexicographic order.
RECURSIVE StringGreater(_, _)
StringGreater(a, b) ==
    IF a = << >> THEN FALSE
    ELSE IF b = << >> THEN TRUE
    ELSE IF Code[a[1]] # Code[b[1]] THEN Code[a[1]] > Code[b[1]]
    ELSE StringGreater(Tail(a), Tail(b))

\* strings.ReplaceAll(s, old, new) for a one-character old.
RECURSIVE ReplaceAll(_, _, _)
ReplaceAll(s, old, new) ==
    IF s = << >> THEN << >>
    ELSE (IF s[1] = old THEN new ELSE <<s[1]>>) \o ReplaceAll(Tail(s), old, new)

\* versionPattern without the optional dotted suffix.
versionPatternExact(match) ==
    LET m1 == ReplaceAll(match, ".", <<"\\", ".">>)
        m2 == ReplaceAll(m1, "*", <<".", "*">>)
    IN  <<"^">> \o m2 \o <<"$">>

\* The pattern versionMatches compiles.
versionPattern(match) ==
    LET m1 == ReplaceAll(match, ".", <<"\\", ".">>)
        m2 == ReplaceAll(m1, "*", <<".", "*">>)
    IN  <<"^">> \o m2 \o <<"(", "\\", ".", ".", "*", ")", "*", "$">>

\* The position of the ")" that closes the group opened before p[1]
\* (the patterns built here do not nest groups).
GroupEnd(p) == CHOOSE i \in 1 .. Len(p) : p[i] = ")" /\ \A k \in 1 .. (i - 1) : p[k] # ")"

\* regexp matching of s against the rest p of a pattern, anchored at both
\* ends, for the syntax versionPattern produces from digits, "." and "*":
\* \c is the character c, .* any run of characters, (g)* any number of
\* repetitions of g, $ the end of the text.
RECURSIVE MatchHere(_, _)
RECURSIVE MatchStar(_, _, _)
MatchHere(p, s) ==
    IF p = << >> \/ p = <<"$">> THEN s = << >>
    ELSE IF p[1] = "\\"
    THEN s # << >> /\ s[1] = p[2] /\ MatchHere(From(p, 3), Tail(s))
    ELSE IF p[1] = "." /\ Len(p) >= 2 /\ p[2] = "*"
    THEN \E k \in 0 .. Len(s) : MatchHere(From(p, 3), From(s, k + 1))
    ELSE IF p[1] = "."
    THEN s # << >> /\ MatchHere(Tail(p), Tail(s))
    ELSE IF p[1] = "("
    THEN LET e == GroupEnd(p)
         IN  MatchStar(SubSeq(p, 2, e - 1), From(p, e + 2), s)
    ELSE s # << >> /\ s[1] = p[1] /\ MatchHere(Tail(p), Tail(s))
MatchStar(g, rest, s) ==
    \/ MatchHere(rest, s)
    \/ \E k \in 1 .. Len(s) :
        /\ MatchHere(g, SubSeq(s, 1, k))
        /\ MatchStar(g, rest, From(s, k + 1))

\* regexp.MatchString for a pattern that starts with ^.
MatchString(pattern, s) == MatchHere(Tail(pattern), s)

\* versionMatches(version, match)
versionMatches(version, match) ==
    IF version = AnyVersion \/ match = AnyVersion
    THEN TRUE
    ELSE MatchString(versionPattern(match), version)

\* cleanFormatName: "-" and "_" removed, lower case.
cleanFormatName(name) ==
    ToLower(ReplaceAll(ReplaceAll(name, "-", << >>), "_", << >>))

\* An encoder: what ID(), Aliases() and Version() return.
Encoder(id, aliases, version) == [id |-> id, aliases |-> aliases, version |-> version]

NameSpdxJSON == <<"s", "p", "d", "x", "-", "j", "s", "o", "n">>
NameSyftJSON == <<"s", "y", "f", "t", "-", "j", "s", "o", "n">>
NameJSON == <<"j", "s", "o", "n">>

EncoderVersions ==
    { AnyVersion, <<"1">>, <<"1", ".", "9">>, <<"1", ".", "1", "0">>,
      <<"2", ".", "2">>, <<"2", ".", "3">> }

EncoderPool ==
    { Encoder(NameSpdxJSON, << >>, v) : v \in EncoderVersions }
    \cup { Encoder(NameSyftJSON, <<NameJSON>>, v) : v \in {AnyVersion, <<"1", ".", "9">>} }

\* The collections NewEncoderCollection is called with.
EncoderLists == UNION { [1 .. n -> EncoderPool] : n \in 0 .. MaxEncoders }

\* The names and versions looked up.
QueryNames ==
    { NameSpdxJSON, <<"S", "P", "D", "X", "_", "J", "S", "O", "N">>,
      NameSyftJSON, NameJSON, <<"x">> }
QueryVersions ==
    { AnyVersion, <<"*">>, <<"1">>, <<"2">>, <<"2", ".">>, <<"2", ".", "*">>,
      <<"1", ".", "1", "*">>, <<"1", ".", "9">>, <<"*", ".", "3">>, <<"3">>,
      <<"1", "*">>, <<"2", "*", "3">> }

\* The names an encoder answers to: its ID, then its aliases.
namesOf(f) == <<f.id>> \o f.aliases

\* The body of Get's loop for encoder i: the new value of mostRecentFormat
\* (an index into encoders, 0 for nil).
considerFormat(encs, i, name, version, mostRecentFormat) ==
    LET f == encs[i]
        hit == \E k \in 1 .. Len(namesOf(f)) :
                  /\ cleanFormatName(namesOf(f)[k]) = name
                  /\ versionMatches(f.version, version)
    IN  IF hit /\ (mostRecentFormat = 0
                    \/ StringGreater(f.version, encs[mostRecentFormat].version))
        THEN i
        ELSE mostRecentFormat

RECURSIVE getLoop(_, _, _, _, _)
getLoop(encs, i, name, version, mostRecentFormat) ==
    IF i > Len(encs)
    THEN mostRecentFormat
    ELSE getLoop(encs, i + 1, name, version,
                 considerFormat(encs, i, name, version, mostRecentFormat))

\* EncoderCollection.Get(name, version): the index of the encoder returned,
\* 0 for nil.
Get(encs, name, version) == getLoop(encs, 1, cleanFormatName(name), version, 0)

\* strings.SplitN(s, "@", 2)
SplitN2(s, sep) ==
    IF \A i \in 1 .. Len(s) : s[i] # sep
    THEN <<s>>
    ELSE LET i == CHOOSE j \in 1 .. Len(s) :
                      s[j] = sep /\ \A k \in 1 .. (j - 1) : s[k] # sep
         IN  <<SubSeq(s, 1, i - 1), From(s, i + 1)>>

\* The (name, version) GetByString looks up for s.
getByStringArgs(s) ==
    LET parts == SplitN2(s, "@")
    IN  [name |-> parts[1],
         version |-> IF Len(parts) > 1 THEN parts[2] ELSE AnyVersion]

\* EncoderCollection.GetByString(s)
GetByString(encs, s) ==
    LET a == getByStringArgs(s) IN Get(encs, a.name, a.version)

\* A call of Get.
GetCall ==
    /\ ecQuery.op = "none"
    /\ UNCHANGED ecRest
    /\ \E name \in QueryNames, version \in QueryVersions :
        /\ ecQuery' = [op |-> "Get", name |-> name, version |-> version, s |-> EmptyStr]
        /\ ecResult' = Get(encoders, name, version)
        /\ UNCHANGED encoders

\* A call of GetByString with "name" or "name@version".
GetByStringCall ==
    /\ ecQuery.op = "none"
    /\ UNCHANGED ecRest
    /\ \E name \in QueryNames, version \in QueryVersions, at \in BOOLEAN :
        LET s == IF at THEN name \o <<"@">> \o version ELSE name
        IN  /\ ecQuery' = [op |-> "GetByString", name |-> name,
                           version |-> IF at THEN version ELSE AnyVersion, s |-> s]
            /\ ecResult' = GetByString(encoders, s)
            /\ UNCHANGED encoders

ecIdle ==
    /\ ecQuery = [op |-> "none", name |-> EmptyStr, version |-> EmptyStr, s |-> EmptyStr]
    /\ ecResult = 0

ecInit ==
    /\ encoders \in EncoderLists
    /\ ecIdle

----------------------------------------------------------------------------
(* syft.GetSource *)

\* Bound of the GetSource model: the longest list of providers.
MaxProviders == 3

\* Errors are trees: a leaf has no Unwrap method, a wrap node has
\* Unwrap() error (fmt.Errorf with %w, *fs.PathError), a join node has
\* Unwrap() []error (errors.Join), a text node is fmt.Errorf without %w.
\* notExist: errors.Is(leaf, os.ErrNotExist) holds.
NilErr == [k |-> "nil"]
Leaf(notExist, msg) == [k |-> "leaf", notExist |-> notExist, msg |-> msg]
Wrap(msg, e) == [k |-> "wrap", msg |-> msg, e |-> e]
Join(es) == [k |-> "join", es |-> es]
Text(msg, parts) == [k |-> "text", msg |-> msg, parts |-> parts]

\* errors.Is(err, os.ErrNotExist)
RECURSIVE IsNotExist(_)
IsNotExist(err) ==
    CASE err.k = "leaf" -> err.notExist
      [] err.k = "wrap" -> IsNotExist(err.e)
      [] err.k = "join" -> \E i \in 1 .. Len(err.es) : IsNotExist(err.es[i])
      [] OTHER -> FALSE

\* errors.Is(err, target)
RECURSIVE Is(_, _)
Is(err, target) ==
    IF err = NilErr \/ target = NilErr
    THEN err = target
    ELSE \/ err = target
         \/ err.k = "wrap" /\ err.e # NilErr /\ Is(err.e, target)
         \/ err.k = "join" /\ \E i \in 1 .. Len(err.es) : Is(err.es[i], target)

\* errors.Join(out, e) for a non-nil e: nil values are dropped.
JoinErrors(out, e) == IF out = NilErr THEN Join(<<e>>) ELSE Join(<<out, e>>)

\* holdBack that holds nothing back.
holdBackNothing(err) == err

\* The callback GetSource passes to eachError: what it returns.
holdBack(err) == IF err # NilErr /\ IsNotExist(err) THEN NilErr ELSE err

\* eachError(err, fn): the error it returns.
RECURSIVE eachError(_)
RECURSIVE eachErrorJoin(_, _, _)
eachError(err) ==
    LET out == holdBack(err)
    IN  IF err = NilErr THEN NilErr
        ELSE IF err.k = "wrap"
        THEN LET wrapped == err.e
                 got == eachError(wrapped)
             IN  IF Is(got, wrapped) THEN err ELSE got
        ELSE IF err.k = "join"
        THEN eachErrorJoin(err.es, 1, out)
        ELSE out
eachErrorJoin(es, i, out) ==
    IF i > Len(es)
    THEN out
    ELSE LET e == eachError(es[i])
         IN  eachErrorJoin(es, i + 1, IF e # NilErr THEN JoinErrors(out, e) ELSE out)

\* eachError(err, fn): the value of fileNotfound after it, nf before it.
\* The callback assigns every not-found error it is shown, outer before
\* inner, in the order eachError visits them.
RECURSIVE notFoundAfter(_, _)
RECURSIVE notFoundAfterJoin(_, _, _)
notFoundAfter(err, nf) ==
    LET nf1 == IF err # NilErr /\ IsNotExist(err) THEN err ELSE nf
    IN  IF err = NilErr THEN nf
        ELSE IF err.k = "wrap" THEN notFoundAfter(err.e, nf1)
        ELSE IF err.k = "join" THEN notFoundAfterJoin(err.es, 1, nf1)
        ELSE nf1
notFoundAfterJoin(es, i, nf) ==
    IF i > Len(es) THEN nf
    ELSE notFoundAfterJoin(es, i + 1, notFoundAfter(es[i], nf))

\* sourceError(userInput, errs...)
sourceError(es) ==
    IF Len(es) = 0 THEN NilErr
    ELSE IF Len(es) = 1 THEN Wrap("an error occurred attempting to resolve", es[1])
    ELSE Text("errors occurred attempting to resolve", es)

PlatformError == Leaf(FALSE, "platform specified with non-image source")
ProvidersError == Leaf(FALSE, "getProviders failed")

\* What src.Describe().Metadata of a source can be; "nil" is no source.
NoSource == "nil"
Sources == {NoSource, "ImageMetadata", "*ImageMetadata", "DirectoryMetadata"}

\* isImage that knows the pointer type only.
isImagePointer(meta) == meta = "*ImageMetadata"

\* The type switch of GetSource: the metadata is image metadata.
isImage(meta) == meta \in {"*ImageMetadata", "ImageMetadata"}

\* The errors provider p can return.
ProviderErrors(p) ==
    LET nf == Leaf(TRUE, <<p, 0>>)
        o1 == Leaf(FALSE, <<p, 1>>)
        o2 == Leaf(FALSE, <<p, 2>>)
    IN  { NilErr, nf, o1,
          Wrap(<<p, 3>>, nf), Wrap(<<p, 3>>, o1), Wrap(<<p, 3>>, Wrap(<<p, 4>>, nf)),
          Join(<<nf>>), Join(<<nf, o1>>), Join(<<o1, nf>>), Join(<<o1, o2>>),
          Join(<<Wrap(<<p, 3>>, nf), o1>>),
          Wrap(<<p, 3>>, Join(<<nf, o1>>)), Wrap(<<p, 3>>, Join(<<o1, o2>>)) }

\* found that takes a source only from a provider that reported no error.
foundWithoutError(src, err) == src # NoSource /\ err = NilErr

\* The loop's test for leaving with the source of this provider.
found(src, err) == src # NoSource

\* GetSource, entry: the providers of the configuration and the locals.
\* cfg.getProviders either fails or gives n providers.
GetSourceBegin ==
    /\ gsPc = "idle"
    /\ \E platform \in BOOLEAN, n \in 0 .. MaxProviders, providersOK \in BOOLEAN :
        /\ gsCfg' = [platform |-> platform, n |-> n, providersOK |-> providersOK]
        /\ IF providersOK
           THEN gsPc' = "loop" /\ gsResult' = gsResult
           ELSE gsPc' = "done" /\ gsResult' = [src |-> NoSource, err |-> ProvidersError]
    /\ gsI' = 1
    /\ errs' = << >>
    /\ fileNotfound' = NilErr
    /\ gsCalls' = << >>
    /\ UNCHANGED gsRest

\* One iteration of the range loop: p.Provide(ctx) returns (src, err).
Provide ==
    /\ gsPc = "loop"
    /\ gsI <= gsCfg.n
    /\ \E src \in Sources, err \in ProviderErrors(gsI) :
        LET kept == eachError(err)
        IN  /\ gsCalls' = Append(gsCalls, [p |-> gsI, src |-> src, err |-> err])
            /\ fileNotfound' = notFoundAfter(err, fileNotfound)
            /\ errs' = IF kept # NilErr THEN Append(errs, kept) ELSE errs
            /\ IF found(src, err)
               THEN /\ gsResult' =
                        IF gsCfg.platform /\ ~isImage(src)
                        THEN [src |-> src, err |-> PlatformError]
                        ELSE [src |-> src, err |-> NilErr]
                    /\ gsPc' = "done"
                    /\ gsI' = gsI
               ELSE /\ gsI' = gsI + 1
                    /\ UNCHANGED <<gsResult, gsPc>>
    /\ UNCHANGED gsCfg
    /\ UNCHANGED gsRest

\* After the loop: every provider was called and none gave a source.
GetSourceEnd ==
    /\ gsPc = "loop"
    /\ gsI > gsCfg.n
    /\ LET all == IF fileNotfound # NilErr THEN <<fileNotfound>> \o errs ELSE errs
       IN  /\ errs' = all
           /\ gsResult' = [src |-> NoSource, err |-> sourceError(all)]
    /\ gsPc' = "done"
    /\ UNCHANGED <<gsCfg, gsI, fileNotfound, gsCalls>>
    /\ UNCHANGED gsRest

gsIdle ==
    /\ gsPc = "idle"
    /\ gsCfg = [platform |-> FALSE, n |-> 0, providersOK |-> TRUE]
    /\ gsI = 1
    /\ errs = << >>
    /\ fileNotfound = NilErr
    /\ gsCalls = << >>
    /\ gsResult = [src |-> NoSource, err |-> NilErr]

gsInit == gsIdle

----------------------------------------------------------------------------
(* file.UnzipToDir *)

\* Bound of the UnzipToDir model: the most entries an archive has.
MaxZipEntries == 2

\* The segments of a path: what lies between its separators.
Segments(path) ==
    LET parts == Split(path, "/")
    IN  SelectSeq(parts, LAMBDA x : x # << >> /\ x # <<".">>)

\* The path is rooted: it starts with the separator.
Rooted(path) == path # << >> /\ path[1] = "/"

\* filepath.Clean on the segments: ".." takes away the segment before it,
\* is dropped at the root and is kept at the start of a relative path.
RECURSIVE cleanSegments(_, _, _)
cleanSegments(segs, rooted, out) ==
    IF segs = << >> THEN out
    ELSE IF segs[1] = <<".", ".">>
    THEN IF out # << >> /\ out[Len(out)] # <<".", ".">>
         THEN cleanSegments(Tail(segs), rooted, SubSeq(out, 1, Len(out) - 1))
         ELSE IF rooted
         THEN cleanSegments(Tail(segs), rooted, out)
         ELSE cleanSegments(Tail(segs), rooted, Append(out, segs[1]))
    ELSE cleanSegments(Tail(segs), rooted, Append(out, segs[1]))

\* The segments written with one separator between them.
RECURSIVE joinSegments(_)
joinSegments(segs) ==
    IF segs = << >> THEN << >>
    ELSE IF Len(segs) = 1 THEN segs[1]
    ELSE segs[1] \o <<"/">> \o joinSegments(Tail(segs))

\* filepath.Clean
filepathClean(path) ==
    LET segs == cleanSegments(Segments(path), Rooted(path), << >>)
    IN  IF Rooted(path)
        THEN <<"/">> \o joinSegments(segs)
        ELSE IF segs = << >> THEN <<".">> ELSE joinSegments(segs)

\* filepath.Join of two elements: empty elements are left out, the rest is
\* joined with the separator and cleaned.
filepathJoin(a, b) ==
    IF a = << >> /\ b = << >> THEN << >>
    ELSE IF a = << >> THEN filepathClean(b)
    ELSE IF b = << >> THEN filepathClean(a)
    ELSE filepathClean(a \o <<"/">> \o b)

\* safeJoin(prefix, dest)
safeJoin(prefix, dest) ==
    LET joinResult == filepathJoin(prefix, dest)
        cleanJoinResult == filepathClean(joinResult)
    IN  IF ~HasPrefix(cleanJoinResult, filepathClean(prefix))
        THEN [path |-> << >>, err |-> "errZipSlipDetected"]
        ELSE [path |-> joinResult, err |-> "nil"]

\* The target directories UnzipToDir is called with.
TargetDirs == { <<"/", "t", "/", "o">>, <<"o">>, <<".">> }

\* The names of archive entries.
EntryNames ==
    { <<"a">>,
      <<"d", "/", "a">>,
      <<".", ".", "/", "x">>,
      <<".", ".", "/", "o", "e">>,
      <<".", ".", "/", "o">>,
      <<"d", "/", ".", ".", "/", ".", ".", "/", "o", "e", "/", "x">>,
      <<".", "/", "a">>,
      <<".", ".", "/", ".", ".", "/", "e">> }

\* zip.File: the name and whether the entry is a directory.
ZipEntries == [name : EntryNames, isDir : BOOLEAN]

\* The archives: their entries in the order of the central directory.
Archives == UNION { [1 .. n -> ZipEntries] : n \in 0 .. MaxZipEntries }

\* What extractSingleFile can come to: the entry cannot be opened, the
\* directory or file cannot be created, the copy fails after the file was
\* created, or everything succeeds.
ExtractOutcomes == {"ok", "unable to read file", "unable to create", "unable to copy"}

\* extractSingleFile created or wrote expandedFilePath.
extractWrites(file, outcome) ==
    outcome = "ok" \/ (~file.isDir /\ outcome = "unable to copy")

\* UnzipToDir, entry: TraverseFilesInZip opens the archive.
UnzipBegin ==
    /\ zxPc = "idle"
    /\ \E targetDir \in TargetDirs, archive \in Archives, opened \in BOOLEAN :
        /\ zxTarget' = targetDir
        /\ zxEntries' = archive
        /\ IF opened
           THEN zxPc' = "loop" /\ zxResult' = "nil"
           ELSE zxPc' = "done" /\ zxResult' = "unable to open zip archive"
    /\ zxI' = 1
    /\ zxWritten' = {}
    /\ zxLog' = << >>
    /\ UNCHANGED zxRest

\* One iteration of TraverseFilesInZip's loop: the visitor of UnzipToDir.
UnzipVisit ==
    /\ zxPc = "loop"
    /\ zxI <= Len(zxEntries)
    /\ LET file == zxEntries[zxI]
           joined == safeJoin(zxTarget, file.name)
       IN  IF joined.err # "nil"
           THEN /\ zxResult' = joined.err
                /\ zxPc' = "done"
                /\ zxLog' = Append(zxLog, [err |-> joined.err, wrote |-> FALSE])
                /\ UNCHANGED <<zxI, zxWritten>>
           ELSE \E outcome \in ExtractOutcomes :
                /\ zxWritten' = IF extractWrites(file, outcome)
                                THEN zxWritten \cup {filepathClean(joined.path)}
                                ELSE zxWritten
                /\ zxLog' = Append(zxLog, [err |-> IF outcome = "ok" THEN "nil" ELSE outcome,
                                           wrote |-> extractWrites(file, outcome)])
                /\ IF outcome = "ok"
                   THEN zxI' = zxI + 1 /\ UNCHANGED <<zxPc, zxResult>>
                   ELSE zxPc' = "done" /\ zxResult' = outcome /\ zxI' = zxI
    /\ UNCHANGED <<zxTarget, zxEntries>>
    /\ UNCHANGED zxRest

\* After the loop: every entry was extracted.
UnzipEnd ==
    /\ zxPc = "loop"
    /\ zxI > Len(zxEntries)
    /\ zxPc' = "done"
    /\ UNCHANGED <<zxTarget, zxEntries, zxI, zxWritten, zxLog, zxResult>>
    /\ UNCHANGED zxRest

zxIdle ==
    /\ zxPc = "idle"
    /\ zxTarget = << >>
    /\ zxEntries = << >>
    /\ zxI = 1
    /\ zxWritten = {}
    /\ zxLog = << >>
    /\ zxResult = "nil"

----------------------------------------------------------------------------
(* file.OpenZip and findArchiveStartOffset *)

directoryEndLen == 22
directory64LocLen == 20
directory64EndLen == 56

\* The lengths of the two blocks findArchiveStartOffset searches.
BlockLengths == <<1024, 65 * 1024>>

\* zip.ErrFormat
ErrFormat == "zip: not a valid zip file"

\* A file: prefix bytes that hold no ZIP record, then an archive of dataSize
\* bytes of local entries, a central directory of dirSize bytes for records
\* entries, for a ZIP64 archive the ZIP64 end record and its locator, and
\* the directory end record with a comment of commentLen bytes that holds
\* no signature. The offsets the archive records are relative to its start.
ZipFile(prefix, dataSize, records, dirSize, commentLen, zip64) ==
    [prefix |-> prefix, dataSize |-> dataSize, records |-> records,
     dirSize |-> dirSize, commentLen |-> commentLen, zip64 |-> zip64]

\* Where the records of the file lie, and its size.
directory64EndPos(f) == f.prefix + f.dataSize + f.dirSize
directory64LocPos(f) == directory64EndPos(f) + directory64EndLen
directoryEndPos(f) ==
    IF f.zip64
    THEN directory64LocPos(f) + directory64LocLen
    ELSE f.prefix + f.dataSize + f.dirSize
fileSize(f) == directoryEndPos(f) + directoryEndLen + f.commentLen

\* The files OpenZip is called on: archives without and with ZIP64 records
\* (65535 entries or more), preceded by 0 to 65537 bytes.
ZipFiles ==
    { ZipFile(n, data, d[1], d[2], c, FALSE) :
        n \in {0, 1, 100, 1024, 65537}, data \in {0, 30, 2000, 70000},
        d \in {<<0, 0>>, <<1, 46>>, <<3, 65535>>, <<900, 70000>>},
        c \in {0, 5, 1002, 1003, 65535} }
    \cup
    { ZipFile(n, data, 65535, 65535 * 46, c, TRUE) :
        n \in {0, 1, 100, 1024, 65537}, data \in {0, 70000}, c \in {0, 1003} }

\* r.ReadAt(buf, offset) for a buffer of length len reads all of it.
readsAll(f, offset, len) == offset >= 0 /\ offset + len <= fileSize(f)

\* findSignatureInBlock on the last bLen bytes of the file: the index of
\* the last directory end signature whose comment fits in the block, -1 if
\* there is none. The only signature of the file is that of its directory
\* end record.
findSignatureInBlock(f, bLen) ==
    LET i == directoryEndPos(f) - (fileSize(f) - bLen)
    IN  IF i >= 0 /\ i <= bLen - directoryEndLen
           /\ f.commentLen + directoryEndLen + i <= bLen
        THEN i
        ELSE -1

\* The loop of findArchiveStartOffset over the two block lengths.
RECURSIVE findDirectoryEnd(_, _)
findDirectoryEnd(f, i) ==
    LET size == fileSize(f)
        bLen == IF BlockLengths[i + 1] > size THEN size ELSE BlockLengths[i + 1]
        p == findSignatureInBlock(f, bLen)
    IN  IF p >= 0
        THEN [err |-> "nil", directoryEndOffset |-> size - bLen + p]
        ELSE IF i = 1 \/ bLen = size
        THEN [err |-> ErrFormat, directoryEndOffset |-> 0]
        ELSE findDirectoryEnd(f, i + 1)

\* The directoryEnd read from the directory end record: the 16 and 32 bit
\* fields, which hold 0xffff for what does not fit.
directoryEnd(f) ==
    [directoryRecords |-> IF f.records >= 65535 THEN 65535 ELSE f.records,
     directorySize |-> f.dirSize,
     directoryOffset |-> f.dataSize]

\* findDirectory64End(r, directoryEndOffset)
findDirectory64End(f, directoryEndOffset) ==
    LET locOffset == directoryEndOffset - directory64LocLen
    IN  IF locOffset < 0
        THEN [p |-> -1, err |-> "nil"]
        ELSE IF ~readsAll(f, locOffset, directory64LocLen)
        THEN [p |-> -1, err |-> "EOF"]
        ELSE IF ~(f.zip64 /\ locOffset = directory64LocPos(f))
        THEN [p |-> -1, err |-> "nil"]
        ELSE [p |-> f.dataSize + f.dirSize, err |-> "nil"]

\* readDirectory64End(r, offset, d)
readDirectory64End(f, offset, d) ==
    IF ~readsAll(f, offset, directory64EndLen)
    THEN [err |-> "EOF", d |-> d]
    ELSE IF ~(f.zip64 /\ offset = directory64EndPos(f))
    THEN [err |-> "could not read directory64End", d |-> d]
    ELSE [err |-> "nil",
          d |-> [directoryRecords |-> f.records,
                 directorySize |-> f.dirSize,
                 directoryOffset |-> f.dataSize]]

\* findArchiveStartOffset(r, size)
findArchiveStartOffset(f) ==
    LET dirEnd == findDirectoryEnd(f, 0)
        d0 == directoryEnd(f)
    IN  IF dirEnd.err # "nil"
        THEN [startOfArchive |-> 0, err |-> dirEnd.err]
        ELSE LET is64 == d0.directoryRecords = 65535 \/ d0.directorySize = 65535
                 loc == findDirectory64End(f, dirEnd.directoryEndOffset)
                 use64 == is64 /\ loc.err = "nil" /\ loc.p >= 0
                 read == readDirectory64End(f, loc.p, d0)
                 err == IF ~is64 THEN "nil"
                        ELSE IF use64 THEN read.err ELSE loc.err
                 d == IF use64 THEN read.d ELSE d0
                 directoryEndOffset == IF use64 THEN loc.p ELSE dirEnd.directoryEndOffset
             IN  IF err # "nil"
                 THEN [startOfArchive |-> 0, err |-> err]
                 ELSE IF d.directoryOffset < 0 \/ d.directoryOffset >= fileSize(f)
                 THEN [startOfArchive |-> 0, err |-> ErrFormat]
                 ELSE [startOfArchive |->
                           directoryEndOffset - d.directorySize - d.directoryOffset,
                       err |-> "nil"]

\* A call of findArchiveStartOffset on the open file.
FindArchiveStartOffsetCall ==
    /\ zoPc = "idle"
    /\ zoResult' = [op |-> "findArchiveStartOffset",
                    offset |-> findArchiveStartOffset(zoFile).startOfArchive,
                    err |-> findArchiveStartOffset(zoFile).err]
    /\ zoPc' = "done"
    /\ UNCHANGED zoFile
    /\ UNCHANGED zoRest

\* OpenZip(filepath) on a file that opens: the offset the section reader of
\* the zip.Reader starts at.
OpenZipCall ==
    /\ zoPc = "idle"
    /\ LET got == findArchiveStartOffset(zoFile)
       IN  zoResult' = [op |-> "OpenZip",
                        offset |-> got.startOfArchive,
                        err |-> IF got.err = "nil" THEN "nil"
                                ELSE "cannot find beginning of zip archive"]
    /\ zoPc' = "done"
    /\ UNCHANGED zoFile
    /\ UNCHANGED zoRest

zoIdle ==
    /\ zoFile = ZipFile(0, 0, 0, 0, 0, FALSE)
    /\ zoPc = "idle"
    /\ zoResult = [op |-> "none", offset |-> 0, err |-> "nil"]

zoInit ==
    /\ zoFile \in ZipFiles
    /\ zoPc = "idle"
    /\ zoResult = [op |-> "none", offset |-> 0, err |-> "nil"]

----------------------------------------------------------------------------
(* sbom.SBOM: the relationships *)

\* Bound of the SBOM model: the most relationships an SBOM holds.
MaxRelationships == 3

\* The relationship types.
OwnershipByFileOverlapRelationship == "ownership-by-file-overlap"
EvidentByRelationship == "evident-by"
ContainsRelationship == "contains"
DependencyOfRelationship == "dependency-of"
DescribedByRelationship == "described-by"

\* AllRelationshipTypes()
AllRelationshipTypes ==
    << OwnershipByFileOverlapRelationship,
       ContainsRelationship,
       DependencyOfRelationship,
       DescribedByRelationship >>

\* The relationship types in the order of Go's < on their strings.
TypesInOrder ==
    << ContainsRelationship, DependencyOfRelationship, DescribedByRelationship,
       EvidentByRelationship, OwnershipByFileOverlapRelationship >>

\* a < b for two relationship types.
TypeLess(a, b) ==
    \E i, j \in 1 .. Len(TypesInOrder) :
        TypesInOrder[i] = a /\ TypesInOrder[j] = b /\ i < j

\* artifact.Identifiable values: a package or the coordinates of a file,
\* each with its ID (a number stands for the ID string, the order of the
\* numbers for the order of the strings), or nil.
NilEdge == [kind |-> "nil", id |-> 0]
Package(id) == [kind |-> "package", id |-> id]
FileCoordinates(id) == [kind |-> "coordinates", id |-> id]

\* artifact.Relationship
Relationship(from, to, type, data) ==
    [From |-> from, To |-> to, Type |-> type, Data |-> data]

\* The relationships an SBOM is built from.
RelationshipPool ==
    { Relationship(Package(2), to, t, 0) :
        to \in {Package(1), FileCoordinates(3)}, t \in Range(TypesInOrder) }
    \cup
    { Relationship(Package(1), FileCoordinates(3), ContainsRelationship, 0),
      Relationship(FileCoordinates(3), Package(2), EvidentByRelationship, 0),
      Relationship(Package(2), Package(1), ContainsRelationship, 1),
      Relationship(NilEdge, Package(1), ContainsRelationship, 0),
      Relationship(Package(2), NilEdge, ContainsRelationship, 0) }

\* The values of SBOM.Relationships.
RelationshipLists ==
    UNION { [1 .. n -> RelationshipPool] : n \in 0 .. MaxRelationships }

\* The rt arguments of the calls.
TypeArguments ==
    { << >>, <<EvidentByRelationship>>, <<ContainsRelationship, DependencyOfRelationship>> }

\* less that leaves the type out of the comparison.
lessByEndpoints(ri, rj) ==
    IF ri.From.id = rj.From.id
    THEN ri.To.id < rj.To.id
    ELSE ri.From.id < rj.From.id

\* The less function RelationshipsSorted sorts with.
less(ri, rj) ==
    IF ri.From.id = rj.From.id
    THEN IF ri.To.id = rj.To.id
         THEN TypeLess(ri.Type, rj.Type)
         ELSE ri.To.id < rj.To.id
    ELSE ri.From.id < rj.From.id

\* The less function calls ID() on a nil endpoint: a nil pointer dereference.
lessPanics(ri, rj) ==
    \/ ri.From.kind = "nil"
    \/ rj.From.kind = "nil"
    \/ /\ ri.From.id = rj.From.id
       /\ (ri.To.kind = "nil" \/ rj.To.kind = "nil")

\* The inner loop of the insertion sort sort.SliceStable runs on slices of
\* fewer than 20 elements: the element at j moves down while it is less
\* than the one before it.
RECURSIVE insertDown(_, _)
insertDown(st, j) ==
    IF st.panicked \/ j <= 1 THEN st
    ELSE IF lessPanics(st.data[j], st.data[j - 1])
    THEN [st EXCEPT !.panicked = TRUE]
    ELSE IF less(st.data[j], st.data[j - 1])
    THEN insertDown([st EXCEPT !.data = [st.data EXCEPT ![j] = st.data[j - 1],
                                                         ![j - 1] = st.data[j]]],
                    j - 1)
    ELSE st

\* The outer loop of the insertion sort, from element i on.
RECURSIVE insertionSort(_, _)
insertionSort(st, i) ==
    IF st.panicked \/ i > Len(st.data) THEN st
    ELSE insertionSort(insertDown(st, i), i + 1)

\* sort.SliceStable(relationships, less): the slice after it, and whether
\* less panicked.
SliceStable(relationships) ==
    insertionSort([data |-> relationships, panicked |-> FALSE], 2)

\* slices.ContainsFunc(rt, ...): the type is one of rt.
containsType(rt, type) == \E i \in 1 .. Len(rt) : rt[i] = type

\* SBOM.RelationshipsForPackage(p, rt...)
RelationshipsForPackage(relationships, p, rt) ==
    LET types == IF Len(rt) = 0 THEN AllRelationshipTypes ELSE rt
    IN  SelectSeq(relationships,
                  LAMBDA r : /\ ~(r.From.kind = "nil" \/ r.To.kind = "nil")
                             /\ r.From.id = p.id
                             /\ containsType(types, r.Type))

\* extractCoordinates(relationship)
extractCoordinates(r) ==
    (IF r.From.kind = "coordinates" THEN <<r.From>> ELSE << >>)
    \o (IF r.To.kind = "coordinates" THEN <<r.To>> ELSE << >>)

\* The coordinates of a list of relationships, in order.
RECURSIVE coordinatesOf(_)
coordinatesOf(rs) ==
    IF rs = << >> THEN << >>
    ELSE extractCoordinates(rs[1]) \o coordinatesOf(Tail(rs))

\* SBOM.CoordinatesForPackage(p, rt...)
CoordinatesForPackage(relationships, p, rt) ==
    coordinatesOf(RelationshipsForPackage(relationships, p, rt))

\* A call of RelationshipsForPackage.
RelationshipsForPackageCall ==
    /\ sbCall.op = "none"
    /\ \E p \in {Package(1), Package(2)}, rt \in TypeArguments :
        /\ sbCall' = [op |-> "RelationshipsForPackage", p |-> p, rt |-> rt,
                      before |-> sbRelationships]
        /\ sbResult' = [panicked |-> FALSE,
                        value |-> RelationshipsForPackage(sbRelationships, p, rt)]
    /\ UNCHANGED sbRelationships
    /\ UNCHANGED sbRest

\* A call of CoordinatesForPackage.
CoordinatesForPackageCall ==
    /\ sbCall.op = "none"
    /\ \E p \in {Package(1), Package(2)}, rt \in TypeArguments :
        /\ sbCall' = [op |-> "CoordinatesForPackage", p |-> p, rt |-> rt,
                      before |-> sbRelationships]
        /\ sbResult' = [panicked |-> FALSE,
                        value |-> CoordinatesForPackage(sbRelationships, p, rt)]
    /\ UNCHANGED sbRelationships
    /\ UNCHANGED sbRest

\* A call of RelationshipsSorted: the sort is done in place, on the array
\* SBOM.Relationships shares with the slice returned. It can be called again.
RelationshipsSortedCall ==
    /\ sbCall.op \in {"none", "RelationshipsSorted"}
    /\ ~sbResult.panicked
    /\ LET sorted == SliceStable(sbRelationships)
       IN  /\ sbRelationships' = sorted.data
           /\ sbResult' = [panicked |-> sorted.panicked,
                           value |-> IF sorted.panicked THEN << >> ELSE sorted.data]
    /\ sbCall' = [op |-> "RelationshipsSorted", p |-> NilEdge, rt |-> << >>,
                  before |-> sbRelationships]
    /\ UNCHANGED sbRest

sbIdle ==
    /\ sbRelationships = << >>
    /\ sbCall = [op |-> "none", p |-> NilEdge, rt |-> << >>, before |-> << >>]
    /\ sbResult = [panicked |-> FALSE, value |-> << >>]

sbInit ==
    /\ sbRelationships \in RelationshipLists
    /\ sbCall = [op |-> "none", p |-> NilEdge, rt |-> << >>, before |-> << >>]
    /\ sbResult = [panicked |-> FALSE, value |-> << >>]

----------------------------------------------------------------------------
(* cpe.CPE, cpe.BySourceThenSpecificity and cpe.Merge *)

\* Bound of the Merge model: the length of the slices a and b together.
MaxCPEs == 3

\* The characters of the strings of this part, in byte order.
Alphabet ==
    <<"*", "-", ".", "1", "2", "3", ":", "a", "c", "d", "e", "g", "i", "k",
      "l", "n", "o", "p", "r", "t", "u", "v", "w", "x", "y">>

byte(c) == CHOOSE n \in DOMAIN Alphabet : Alphabet[n] = c

\* s < t on Go strings: byte-wise lexicographic.
RECURSIVE stringLess(_, _)
stringLess(s, t) ==
    IF t = << >> THEN FALSE
    ELSE IF s = << >> THEN TRUE
    ELSE IF s[1] = t[1] THEN stringLess(Tail(s), Tail(t))
    ELSE byte(s[1]) < byte(t[1])

\* cpe.Source: the three sources the order ranks, and two others.
NVDDictionaryLookupSource ==
    <<"n", "v", "d", "-", "d", "i", "c", "t", "i", "o", "n", "a", "r", "y",
      "-", "l", "o", "o", "k", "u", "p">>
DeclaredSource == <<"d", "e", "c", "l", "a", "r", "e", "d">>
GeneratedSource == <<"g", "e", "n", "e", "r", "a", "t", "e", "d">>
OtherSources == { <<"x">>, <<"y">> }
CPESources ==
    {NVDDictionaryLookupSource, DeclaredSource, GeneratedSource} \cup OtherSources

\* cpe.Attributes: the fields the order reads, and Update, which it does not
\* read; the other fields are empty.
Attributes(part, vendor, product, version, update, targetSW) ==
    [Part |-> part, Vendor |-> vendor, Product |-> product,
     Version |-> version, Update |-> update, TargetSW |-> targetSW]

\* A field in the formatted string: the empty field (any value) is "*".
bindValue(v) == IF v = << >> THEN <<"*">> ELSE v

\* Attributes.BindToFmtString: "cpe:2.3:" and the eleven fields, with ":"
\* between them.
BindToFmtString(a) ==
    <<"c", "p", "e", ":", "2", ".", "3">>
        \o <<":">> \o bindValue(a.Part)
        \o <<":">> \o bindValue(a.Vendor)
        \o <<":">> \o bindValue(a.Product)
        \o <<":">> \o bindValue(a.Version)
        \o <<":">> \o bindValue(a.Update)
        \o <<":", "*", ":", "*", ":", "*">>
        \o <<":">> \o bindValue(a.TargetSW)
        \o <<":", "*", ":", "*">>

\* cpe.CPE
CPE(attributes, source) == [Attributes |-> attributes, Source |-> source]

\* The attributes of the model: a specific one; the same with another
\* update; the same with a longer vendor; one whose vendor is any value,
\* written as the empty field and as "*".
Specific == Attributes(<<"a">>, <<"v">>, <<"p">>, << >>, << >>, << >>)
Updated == Attributes(<<"a">>, <<"v">>, <<"p">>, << >>, <<"u">>, << >>)
LongVendor == Attributes(<<"a">>, <<"v", "v">>, <<"p">>, << >>, << >>, << >>)
AnyVendor == Attributes(<<"a">>, << >>, <<"p">>, << >>, << >>, << >>)
StarVendor == Attributes(<<"a">>, <<"*">>, <<"p">>, << >>, << >>, << >>)

\* The CPEs Less is called on.
CPEPool ==
    { CPE(a, s) : a \in {Specific, Updated, LongVendor, AnyVendor}, s \in CPESources }

\* Bound of the model of Less: the length of the slice.
MaxSlice == 3

\* countFieldLength
countFieldLength(cpe) ==
    Len(cpe.Part \o cpe.Vendor \o cpe.Product \o cpe.Version \o cpe.TargetSW)

\* weightedCountForSpecifiedFields
weightedCountForSpecifiedFields(cpe) ==
    (IF cpe.Part # << >> THEN 2 ELSE 0)
    + (IF cpe.Vendor # << >> THEN 3 ELSE 0)
    + (IF cpe.Product # << >> THEN 4 ELSE 0)
    + (IF cpe.Version # << >> THEN 1 ELSE 0)
    + (IF cpe.TargetSW # << >> THEN 1 ELSE 0)

\* isMoreSpecific, with the shorter fields first.
isMoreSpecificShorterFirst(i, j) ==
    LET iScore == weightedCountForSpecifiedFields(i)
        jScore == weightedCountForSpecifiedFields(j)
    IN  IF iScore # jScore THEN iScore > jScore
        ELSE IF countFieldLength(i) # countFieldLength(j)
             THEN countFieldLength(i) < countFieldLength(j)
        ELSE stringLess(BindToFmtString(i), BindToFmtString(j))

\* isMoreSpecific
isMoreSpecific(i, j) ==
    LET iScore == weightedCountForSpecifiedFields(i)
        jScore == weightedCountForSpecifiedFields(j)
    IN  IF iScore # jScore THEN iScore > jScore
        ELSE IF countFieldLength(i) # countFieldLength(j)
             THEN countFieldLength(i) > countFieldLength(j)
        ELSE stringLess(BindToFmtString(i), BindToFmtString(j))

\* Less's sourceOrder and getRank
getRank(source) ==
    IF source = NVDDictionaryLookupSource THEN 1
    ELSE IF source = DeclaredSource THEN 2
    ELSE IF source = GeneratedSource THEN 3
    ELSE 4

\* BySourceThenSpecificity.Less
Less(b, i, j) ==
    LET rankI == getRank(b[i].Source)
        rankJ == getRank(b[j].Source)
    IN  IF rankI # rankJ THEN rankI < rankJ
        ELSE isMoreSpecific(b[i].Attributes, b[j].Attributes)

\* Less called on every pair of indices of the slice.
LessCalls ==
    /\ coLess = << >>
    /\ coB # << >>
    /\ coLess' = [i \in DOMAIN coB |-> [j \in DOMAIN coB |-> Less(coB, i, j)]]
    /\ UNCHANGED coB
    /\ UNCHANGED coRest

coIdle ==
    /\ coB = << >>
    /\ coLess = << >>

coInit ==
    /\ coB \in [1..MaxSlice -> CPEPool]
    /\ coLess = << >>

\* The CPEs Merge is called on: two with the same source and the same
\* formatted string, and the same attributes from three sources.
MergePool ==
    { CPE(AnyVendor, DeclaredSource), CPE(StarVendor, DeclaredSource),
      CPE(Specific, NVDDictionaryLookupSource),
      CPE(Specific, <<"x">>), CPE(Specific, <<"y">>) }

CPELists == UNION { [1..n -> MergePool] : n \in 0..MaxCPEs }

\* The arguments of Merge: two slices of at most MaxCPEs elements together.
MergeArguments ==
    { ab \in CPELists \X CPELists : Len(ab[1]) + Len(ab[2]) <= MaxCPEs }

\* Merge's key, keeping the attributes only.
keyOfAttributes(scpe) == BindToFmtString(scpe.Attributes)

\* Merge's key: fmt.Sprintf("%s:%s", source, formatted string)
key(scpe) == scpe.Source \o <<":">> \o BindToFmtString(scpe.Attributes)

\* The map dedupe after the two loops: for each key, the last CPE of a
\* followed by b that has it.
dedupe(a, b) ==
    LET all == a \o b
        keys == { key(all[n]) : n \in DOMAIN all }
        last(k) == CHOOSE n \in DOMAIN all :
                       /\ key(all[n]) = k
                       /\ \A m \in DOMAIN all : key(all[m]) = k => m <= n
    IN  [k \in keys |-> all[last(k)]]

\* The orders in which the range loop can visit the map: every order of its keys.
RECURSIVE ordersOf(_)
ordersOf(keys) ==
    IF keys = {} THEN { << >> }
    ELSE UNION { { <<k>> \o o : o \in ordersOf(keys \ {k}) } : k \in keys }

iterationOrders(m) == ordersOf(DOMAIN m)

\* sort.Sort on a short slice: insertion sort with the Less of the slice.
RECURSIVE sortInsertDown(_, _)
sortInsertDown(data, j) ==
    IF j > 1 /\ Less(data, j, j - 1)
    THEN sortInsertDown([data EXCEPT ![j] = data[j - 1], ![j - 1] = data[j]], j - 1)
    ELSE data

RECURSIVE sortInsertion(_, _)
sortInsertion(data, i) ==
    IF i > Len(data) THEN data
    ELSE sortInsertion(sortInsertDown(data, i), i + 1)

sortSort(data) == sortInsertion(data, 2)

\* What Merge(a, b) can return: one value for each order of the range loop
\* over the map.
Merge(a, b) ==
    LET m == dedupe(a, b)
    IN  { sortSort([n \in DOMAIN o |-> m[o[n]]]) : o \in iterationOrders(m) }

\* A call of Merge, on a and b or on b and a. The call before it is kept.
MergeCall ==
    \E swap \in BOOLEAN :
        LET a == IF swap THEN mgB ELSE mgA
            b == IF swap THEN mgA ELSE mgB
        IN  \E result \in Merge(a, b) :
                mgResult' = [called |-> TRUE, a |-> a, b |-> b, value |-> result,
                             before |-> [called |-> mgResult.called, a |-> mgResult.a,
                                         b |-> mgResult.b, value |-> mgResult.value]]
    /\ UNCHANGED <<mgA, mgB>>
    /\ UNCHANGED mgRest

NoMerge == [called |-> FALSE, a |-> << >>, b |-> << >>, value |-> << >>]

mgIdle ==
    /\ mgA = << >>
    /\ mgB = << >>
    /\ mgResult = [called |-> FALSE, a |-> << >>, b |-> << >>, value |-> << >>,
                  before |-> NoMerge]

mgInit ==
    /\ \E ab \in MergeArguments :
           /\ mgA = ab[1]
           /\ mgB = ab[2]
    /\ mgResult = [called |-> FALSE, a |-> << >>, b |-> << >>, value |-> << >>,
                  before |-> NoMerge]

----------------------------------------------------------------------------
(* pkgcataloging.SelectionRequest *)

\* Bound of the model of WithExpression: the characters of the expressions
\* of one call together.
MaxExprLen == 4

ExprChars == {"+", "-", ",", " ", "a"}

ExprStrings == UNION { [1..n -> ExprChars] : n \in 0..MaxExprLen }

\* The arguments of WithExpression: no expression, one, or two.
ExpressionLists ==
    { << >> } \cup { <<e>> : e \in ExprStrings }
    \cup { ee \in ExprStrings \X ExprStrings : Len(ee[1]) + Len(ee[2]) <= MaxExprLen }

\* SelectionRequest
SelectionRequest(default, selection, addition, removal) ==
    [DefaultNamesOrTags |-> default, SubSelectTags |-> selection,
     AddNames |-> addition, RemoveNamesOrTags |-> removal]

\* NewSelectionRequest
NewSelectionRequest == SelectionRequest(<< >>, << >>, << >>, << >>)

\* WithDefaults, WithSubSelections, WithAdditions, WithRemovals
WithDefaults(s, nameOrTags) ==
    [s EXCEPT !.DefaultNamesOrTags = @ \o nameOrTags]
WithSubSelections(s, tags) ==
    [s EXCEPT !.SubSelectTags = @ \o tags]
WithAdditions(s, names) ==
    [s EXCEPT !.AddNames = @ \o names]
WithRemovals(s, nameOrTags) ==
    [s EXCEPT !.RemoveNamesOrTags = @ \o nameOrTags]

isSpace(c) == c \in {" ", "\t", "\n", "\r"}

RECURSIVE TrimLeft(_)
TrimLeft(t) ==
    IF t # << >> /\ isSpace(t[1]) THEN TrimLeft(Tail(t)) ELSE t

RECURSIVE TrimRight(_)
TrimRight(t) ==
    IF t # << >> /\ isSpace(t[Len(t)]) THEN TrimRight(SubSeq(t, 1, Len(t) - 1)) ELSE t

\* strings.TrimSpace, trimming the left end only.
TrimSpaceLeft(t) == TrimLeft(t)

\* strings.TrimSpace
TrimSpace(t) == TrimRight(TrimLeft(t))

\* strings.TrimPrefix
TrimPrefix(s, p) == IF HasPrefix(s, p) THEN From(s, Len(p) + 1) ELSE s

\* cleanSelection: the inner loop, over the pieces of one tag.
RECURSIVE cleanPieces(_, _)
cleanPieces(pieces, cleaned) ==
    IF pieces = << >> THEN cleaned
    ELSE LET t == TrimSpace(pieces[1])
         IN  IF t = << >> THEN cleanPieces(Tail(pieces), cleaned)
             ELSE cleanPieces(Tail(pieces), Append(cleaned, t))

\* cleanSelection: the outer loop, over the tags.
RECURSIVE cleanTags(_, _)
cleanTags(tags, cleaned) ==
    IF tags = << >> THEN cleaned
    ELSE cleanTags(Tail(tags), cleanPieces(Split(tags[1], ","), cleaned))

cleanSelection(tags) == cleanTags(tags, << >>)

\* WithExpression: the loop over the cleaned expressions.
RECURSIVE withExpressions(_, _)
withExpressions(s, expressions) ==
    IF expressions = << >> THEN s
    ELSE LET expr == expressions[1]
         IN  withExpressions(
                 IF HasPrefix(expr, <<"+">>)
                 THEN WithAdditions(s, <<TrimPrefix(expr, <<"+">>)>>)
                 ELSE IF HasPrefix(expr, <<"-">>)
                 THEN WithRemovals(s, <<TrimPrefix(expr, <<"-">>)>>)
                 ELSE WithSubSelections(s, <<expr>>),
                 Tail(expressions))

\* SelectionRequest.WithExpression
WithExpression(s, expressions) ==
    withExpressions(s, cleanSelection(expressions))

\* The requests WithExpression is called on: the new one, and one with an
\* entry of each kind.
SelectionRequests ==
    { NewSelectionRequest,
      WithRemovals(WithAdditions(WithSubSelections(
          WithDefaults(NewSelectionRequest, << <<"a">> >>),
          << <<"a">> >>), << <<"a", "a">> >>), << <<"a">> >>) }

\* A call s = s.WithExpression(expressions...)
WithExpressionCall ==
    /\ srCall.op = "none"
    /\ \E expressions \in ExpressionLists :
           /\ srRequest' = WithExpression(srRequest, expressions)
           /\ srCall' = [op |-> "WithExpression", expressions |-> expressions,
                         before |-> srRequest]
    /\ UNCHANGED srRest

srIdle ==
    /\ srRequest = NewSelectionRequest
    /\ srCall = [op |-> "none", expressions |-> << >>, before |-> NewSelectionRequest]

srInit ==
    /\ srRequest \in SelectionRequests
    /\ srCall = [op |-> "none", expressions |-> << >>, before |-> NewSelectionRequest]

----------------------------------------------------------------------------
(* file.LocationSet: the annotations of the entries *)

\* The contents the Annotations map of an added location can have: two
\* annotation keys, one of them with two values.
AnnotationMaps ==
    UNION { [D -> {"primary", "supporting"}] : D \in SUBSET {"evidence"} }
    \cup { m @@ [note |-> "n"] :
             m \in UNION { [D -> {"primary", "supporting"}] : D \in SUBSET {"evidence"} } }

\* The locations added: two access paths to the same file.
AnnotatedDatas ==
    { LocationData(Coordinates("/a", ""), "/a", "ref1"),
      LocationData(Coordinates("/a", ""), "/ln", "ref1") }

\* The record of the annotations added with the key data, after a location
\* with the annotations other was added: an annotation key that is new is
\* recorded with its value.
addedAfterAdd(a, data, other) ==
    LET seen == IF data \in DOMAIN a THEN a[data] ELSE << >>
        now == [k \in DOMAIN seen \cup DOMAIN other |->
                   IF k \in DOMAIN seen THEN seen[k] ELSE other[k]]
    IN  [d \in DOMAIN a \cup {data} |-> IF d = data THEN now ELSE a[d]]

\* LocationSet.Add(l) for one location l = (data, annotations at addr) on
\* heap h, with the record of what was added.
AddAnnotated(h, data, addr) ==
    /\ ~anPanicked
    /\ IF data \in DOMAIN anSet /\ mergePanics(h, anSet[data], addr)
       THEN /\ anPanicked' = TRUE
            /\ anSet' = anSet
            /\ anHeap' = h
            /\ anAdded' = anAdded
       ELSE /\ anPanicked' = FALSE
            /\ anSet' = setAfterAdd(anSet, data, addr)
            /\ anHeap' = IF data \in DOMAIN anSet
                         THEN heapAfterMerge(h, anSet[data], addr)
                         ELSE h
            /\ anAdded' = addedAfterAdd(anAdded, data, MapAt(h, addr))
    /\ UNCHANGED anRest

\* Add of a location whose Annotations map is nil (a Location that no
\* constructor made) or is a map that exists (a copy of a Location).
AddShared ==
    \E data \in AnnotatedDatas, addr \in {NilMap} \cup (1 .. Len(anHeap)) :
        AddAnnotated(anHeap, data, addr)

\* Add of a location built with a map of its own.
AddOwn ==
    /\ Len(anHeap) < MaxMaps
    /\ \E data \in AnnotatedDatas, m \in AnnotationMaps :
        AddAnnotated(Append(anHeap, m), data, Len(anHeap) + 1)

anIdle ==
    /\ anSet = << >>
    /\ anHeap = << >>
    /\ anPanicked = FALSE
    /\ anAdded = << >>

----------------------------------------------------------------------------
(* file.LocationSet.Hash and file.CoordinateSet *)

\* The strings of the coordinates, in byte order.
PathsInOrder == <<"", "/a", "/b", "/ln", "l1">>

pathLess(a, b) ==
    \E i, j \in DOMAIN PathsInOrder :
        PathsInOrder[i] = a /\ PathsInOrder[j] = b /\ i < j

\* The locations of the sets that are hashed, and the annotations they have.
HashedDatas == { d \in LocationDatas : d.ref = "ref1" }
HashedAnnotations == { << >>, [evidence |-> "primary"] }

\* A LocationSet: nil, or a map.
NilLocationSet == [isNil |-> TRUE, set |-> << >>]
LocationSets ==
    { NilLocationSet }
    \cup { [isNil |-> FALSE, set |-> m] :
             m \in UNION { [D -> HashedAnnotations] : D \in SUBSET HashedDatas } }

\* The orders in which a range loop, or strset's List, can give the elements.
RECURSIVE elementOrders(_)
elementOrders(elements) ==
    IF elements = {} THEN { << >> }
    ELSE UNION { { <<e>> \o o : o \in elementOrders(elements \ {e}) } : e \in elements }

\* LocationSet.CoordinateSet with the access paths in place of the coordinates.
CoordinateSetOfAccessPaths(s) ==
    IF s.isNil \/ DOMAIN s.set = {}
    THEN [isNil |-> TRUE, set |-> {}]
    ELSE [isNil |-> FALSE,
          set |-> { Coordinates(l.AccessPath, l.Coordinates.FileSystemID) : l \in DOMAIN s.set }]

\* LocationSet.CoordinateSet: the inner map of the CoordinateSet is made by
\* its first Add.
CoordinateSet(s) ==
    IF s.isNil \/ DOMAIN s.set = {}
    THEN [isNil |-> TRUE, set |-> {}]
    ELSE [isNil |-> FALSE, set |-> { l.Coordinates : l \in DOMAIN s.set }]

\* The less function of CoordinateSet.ToSlice
coordinatesLess(ci, cj) ==
    IF ci.RealPath = cj.RealPath
    THEN pathLess(ci.FileSystemID, cj.FileSystemID)
    ELSE pathLess(ci.RealPath, cj.RealPath)

RECURSIVE coordinatesInsertDown(_, _)
coordinatesInsertDown(data, j) ==
    IF j > 1 /\ coordinatesLess(data[j], data[j - 1])
    THEN coordinatesInsertDown(
             [data EXCEPT ![j] = data[j - 1], ![j - 1] = data[j]], j - 1)
    ELSE data

RECURSIVE coordinatesInsertion(_, _)
coordinatesInsertion(data, i) ==
    IF i > Len(data) THEN data
    ELSE coordinatesInsertion(coordinatesInsertDown(data, i), i + 1)

\* CoordinateSet.ToSlice, the range loop having given the coordinates in order.
ToSlice(cs, order) == coordinatesInsertion(order, 2)

RECURSIVE stringsInsertDown(_, _)
stringsInsertDown(data, j) ==
    IF j > 1 /\ pathLess(data[j], data[j - 1])
    THEN stringsInsertDown([data EXCEPT ![j] = data[j - 1], ![j - 1] = data[j]], j - 1)
    ELSE data

RECURSIVE stringsInsertion(_, _)
stringsInsertion(data, i) ==
    IF i > Len(data) THEN data
    ELSE stringsInsertion(stringsInsertDown(data, i), i + 1)

\* sort.Strings
sortStrings(data) == stringsInsertion(data, 2)

\* CoordinateSet.Paths: what it can return, for every order of the range loop
\* of ToSlice and every order of strset's List. A nil set gives nil, which
\* is the empty slice here.
Paths(cs) ==
    IF cs.isNil THEN { << >> }
    ELSE UNION {
             LET slice == ToSlice(cs, order)
                 paths == { slice[n].RealPath : n \in DOMAIN slice }
             IN  { sortStrings(pathSlice) : pathSlice \in elementOrders(paths) }
             : order \in elementOrders(cs.set) }

\* hashstructure.Hash of a slice of strings with SlicesAsSets: the hashes of
\* the elements are combined by exclusive or, so that their order does not
\* count and an element met twice cancels out. The hash of a string stands
\* for itself: the value is the set of the strings met an odd number of
\* times.
RECURSIVE hashUnordered(_)
hashUnordered(slice) ==
    IF slice = << >> THEN {}
    ELSE LET h == hashUnordered(Tail(slice))
         IN  (h \ {slice[1]}) \cup ({slice[1]} \ h)

\* LocationSet.Hash: what it can return, with the paths it hashed.
Hash(s) ==
    { [called |-> TRUE, paths |-> p, hash |-> hashUnordered(p), err |-> "nil"] :
        p \in Paths(CoordinateSet(s)) }

NotHashed == [called |-> FALSE, paths |-> << >>, hash |-> {}, err |-> "nil"]

\* A call of Hash on one of the two sets.
HashCall ==
    /\ \E i \in DOMAIN hsSets :
           /\ ~hsResult[i].called
           /\ \E r \in Hash(hsSets[i]) : hsResult' = [hsResult EXCEPT ![i] = r]
    /\ UNCHANGED hsSets
    /\ UNCHANGED hsRest

hsIdle ==
    /\ hsSets = <<NilLocationSet, NilLocationSet>>
    /\ hsResult = <<NotHashed, NotHashed>>

hsInit ==
    /\ hsSets \in [1..2 -> LocationSets]
    /\ hsResult = <<NotHashed, NotHashed>>

----------------------------------------------------------------------------
(* executable.Cataloger *)

\* Bound of the model of Catalog: the candidate locations.
MaxLocations == 2

\* file.ExecutableFormat
ELF == "elf"
MachO == "macho"
PE == "pe"

\* The first eight bytes of a file: Mach-O (32 and 64 bit, either byte
\* order), a fat Mach-O, a Java class file, PE, ELF, and a text file.
Heads ==
    { <<254, 237, 250, 206, 0, 0, 0, 0>>, <<207, 250, 237, 254, 0, 0, 0, 0>>,
      <<202, 254, 186, 190, 0, 0, 0, 2>>, <<202, 254, 186, 190, 0, 0, 0, 52>>,
      <<77, 90, 144, 0, 3, 0, 0, 0>>, <<127, 69, 76, 70, 2, 1, 1, 0>>,
      <<35, 33, 47, 98, 105, 110, 47, 115>> }

\* classOrMachOFat
classOrMachOFat(in) ==
    IF Len(in) < 8 THEN FALSE ELSE HasPrefix(in, <<202, 254, 186, 190>>)

\* isMacho: the big and little endian readings of the first four bytes are
\* compared with macho.Magic32 (0xfeedface) and macho.Magic64 (0xfeedfacf).
isMacho(by) ==
    IF classOrMachOFat(by) /\ by[8] < 20 THEN TRUE
    ELSE IF Len(by) < 4 THEN FALSE
    ELSE LET be == SubSeq(by, 1, 4)
             le == <<by[4], by[3], by[2], by[1]>>
         IN  \/ be = <<254, 237, 250, 206>>
             \/ le = <<254, 237, 250, 206>>
             \/ be = <<254, 237, 250, 207>>
             \/ le = <<254, 237, 250, 207>>

\* isPE, isELF
isPE(by) == HasPrefix(by, <<77, 90>>)
isELF(by) == HasPrefix(by, <<127, 69, 76, 70>>)

\* A file behind a location: whether its contents and the union reader can
\* be had, its length, its first bytes, whether the ELF features can be read.
ExecutableFile(open, union, size, head, features) ==
    [open |-> open, union |-> union, size |-> size, head |-> head,
     features |-> features]

ExecutableFiles ==
    { ExecutableFile(FALSE, TRUE, 600, <<127, 69, 76, 70, 2, 1, 1, 0>>, TRUE),
      ExecutableFile(TRUE, FALSE, 600, <<77, 90, 144, 0, 3, 0, 0, 0>>, TRUE),
      ExecutableFile(TRUE, TRUE, 100, <<77, 90, 144, 0, 3, 0, 0, 0>>, TRUE),
      ExecutableFile(TRUE, TRUE, 600, <<127, 69, 76, 70, 2, 1, 1, 0>>, FALSE) }
    \cup { ExecutableFile(TRUE, TRUE, 512, h, TRUE) :
             h \in {<<127, 69, 76, 70, 2, 1, 1, 0>>, <<77, 90, 144, 0, 3, 0, 0, 0>>} }
    \cup { ExecutableFile(TRUE, TRUE, 600, h, TRUE) : h \in Heads }

\* The candidate locations: a file at coordinates.
CandidateLocations ==
    { [Coordinates |-> c, file |-> f] :
        c \in {Coordinates("/a", ""), Coordinates("/b", "")}, f \in ExecutableFiles }

\* reader.ReadAt(buf, 0) with a buffer of 512 bytes: the bytes read and
\* whether an error (io.EOF) comes with them. A read that ends at the end of
\* the file may or may not report io.EOF.
ReadAtSector(f) ==
    IF f.size < 512 THEN { [n |-> f.size, err |-> TRUE] }
    ELSE IF f.size = 512 THEN { [n |-> 512, err |-> FALSE], [n |-> 512, err |-> TRUE] }
    ELSE { [n |-> 512, err |-> FALSE] }

\* findExecutableFormat, the read having given r.
findExecutableFormat(f, r) ==
    IF r.err THEN [format |-> "", err |-> "unable to read first sector of file"]
    ELSE IF r.n < 512
    THEN [format |-> "", err |-> "unable to read enough bytes"]
    ELSE IF isMacho(f.head) THEN [format |-> MachO, err |-> "nil"]
    ELSE IF isPE(f.head) THEN [format |-> PE, err |-> "nil"]
    ELSE IF isELF(f.head) THEN [format |-> ELF, err |-> "nil"]
    ELSE [format |-> "", err |-> "nil"]

\* findSecurityFeatures: features "nil" is the nil pointer.
findSecurityFeatures(format, f) ==
    IF format = ELF
    THEN IF f.features THEN [features |-> "elf features", err |-> "nil"]
         ELSE [features |-> "nil", err |-> "elf"]
    ELSE IF format = PE THEN [features |-> "nil", err |-> "nil"]
    ELSE IF format = MachO THEN [features |-> "nil", err |-> "nil"]
    ELSE [features |-> "nil", err |-> "unsupported executable format"]

NoExecutable == [isNil |-> TRUE, Format |-> "", SecurityFeatures |-> "nil"]

\* processExecutable with the security features always kept.
processExecutableKeepingAll(f, r) ==
    LET fmt == findExecutableFormat(f, r)
    IN  IF fmt.err # "nil" THEN [exec |-> NoExecutable, err |-> fmt.err]
        ELSE IF fmt.format = "" THEN [exec |-> NoExecutable, err |-> "nil"]
        ELSE [exec |-> [isNil |-> FALSE, Format |-> fmt.format,
                        SecurityFeatures |-> findSecurityFeatures(fmt.format, f).features],
              err |-> "nil"]

\* processExecutable
processExecutable(f, r) ==
    LET fmt == findExecutableFormat(f, r)
    IN  IF fmt.err # "nil" THEN [exec |-> NoExecutable, err |-> fmt.err]
        ELSE IF fmt.format = "" THEN [exec |-> NoExecutable, err |-> "nil"]
        ELSE LET sec == findSecurityFeatures(fmt.format, f)
             IN  IF sec.err # "nil" THEN [exec |-> NoExecutable, err |-> "nil"]
                 ELSE [exec |-> [isNil |-> FALSE, Format |-> fmt.format,
                                 SecurityFeatures |-> sec.features],
                       err |-> "nil"]

\* Catalog up to its loop: FilesByMIMEType and filterByGlobs.
CatalogBegin ==
    /\ exPc = "idle"
    /\ IF exCfg.mimeErr \/ exCfg.globErr
       THEN /\ exPc' = "done"
            /\ exReturn' = [results |-> "nil", err |-> "lookup"]
       ELSE /\ exPc' = "loop"
            /\ exReturn' = exReturn
    /\ exResults' = << >>
    /\ exI' = 1
    /\ exLog' = << >>
    /\ UNCHANGED exCfg
    /\ UNCHANGED exRest

\* The body of Catalog's loop for one location.
CatalogVisit ==
    /\ exPc = "loop"
    /\ exI <= Len(exCfg.locs)
    /\ LET loc == exCfg.locs[exI]
       IN  IF ~loc.file.open \/ ~loc.file.union
           THEN /\ exResults' = exResults
                /\ exLog' = Append(exLog, "continue")
           ELSE \E r \in ReadAtSector(loc.file) :
                    LET p == processExecutable(loc.file, r)
                    IN  IF p.exec.isNil
                        THEN /\ exResults' = exResults
                             /\ exLog' = Append(exLog, IF p.err # "nil" THEN "warned"
                                                       ELSE "none")
                        ELSE /\ exResults' =
                                    [c \in DOMAIN exResults \cup {loc.Coordinates} |->
                                        IF c = loc.Coordinates THEN p.exec
                                        ELSE exResults[c]]
                             /\ exLog' = Append(exLog, "entry")
    /\ exI' = exI + 1
    /\ UNCHANGED <<exCfg, exPc, exReturn>>
    /\ UNCHANGED exRest

\* Catalog after its loop.
CatalogEnd ==
    /\ exPc = "loop"
    /\ exI > Len(exCfg.locs)
    /\ exPc' = "done"
    /\ exReturn' = [results |-> exResults, err |-> "nil"]
    /\ UNCHANGED <<exCfg, exI, exResults, exLog>>
    /\ UNCHANGED exRest

NoCatalogReturn == [results |-> "nil", err |-> "nil"]

exIdle ==
    /\ exCfg = [mimeErr |-> FALSE, globErr |-> FALSE, locs |-> << >>]
    /\ exPc = "idle"
    /\ exI = 1
    /\ exResults = << >>
    /\ exLog = << >>
    /\ exReturn = NoCatalogReturn

exInit ==
    /\ exCfg \in [mimeErr : BOOLEAN, globErr : BOOLEAN,
                  locs : UNION { [1..n -> CandidateLocations] : n \in 0..MaxLocations }]
    /\ exPc = "idle"
    /\ exI = 1
    /\ exResults = << >>
    /\ exLog = << >>
    /\ exReturn = NoCatalogReturn

----------------------------------------------------------------------------
(* Identify and Decode of the SPDX JSON decoder called in any order on one
   stream *)

\* Bound of this model: the calls made on the stream.
MaxCalls == 3

\* The offsets decoder.Identify reads the stream from.
spdxIdentifyReads(st) ==
    IF SeekableReaderFails(st) \/ ~st.seekOK
    THEN << >>
    ELSE <<SeekStart(st).pos>>

\* The offsets decoder.Decode reads the stream from: those of its Identify
\* call, then that of spdxJson.Read.
spdxDecodeReads(st) ==
    IF SeekableReaderFails(st)
    THEN << >>
    ELSE LET info == spdxIdentify(st)
             st1 == spdxAfterIdentify(st)
         IN  IF info.id # ID \/ info.version = EmptyStr \/ ~st1.seekOK
             THEN spdxIdentifyReads(st)
             ELSE Append(spdxIdentifyReads(st), SeekStart(st1).pos)

\* decoder.Identify called on the stream.
IdentifyOnStream ==
    /\ sqN < MaxCalls
    /\ sqCall' = [op |-> "Identify", found |-> sqStream.pos,
                  reads |-> spdxIdentifyReads(sqStream),
                  id |-> spdxIdentify(sqStream).id,
                  version |-> spdxIdentify(sqStream).version,
                  result |-> Result(NoSBOM, "", EmptyStr, NoError)]
    /\ sqStream' = spdxAfterIdentify(sqStream)
    /\ sqN' = sqN + 1
    /\ UNCHANGED sqRest

\* decoder.Decode called on the stream.
DecodeOnStream ==
    /\ sqN < MaxCalls
    /\ sqCall' = [op |-> "Decode", found |-> sqStream.pos,
                  reads |-> spdxDecodeReads(sqStream),
                  id |-> spdxDecode(sqStream).id,
                  version |-> spdxDecode(sqStream).version,
                  result |-> spdxDecode(sqStream)]
    /\ sqStream' = spdxAfterDecode(sqStream)
    /\ sqN' = sqN + 1
    /\ UNCHANGED sqRest

\* Another reader of the stream (the Identify of another decoder of the
\* collection) reads it and leaves the position where its read ended.
ReadOnStream ==
    /\ sqN < MaxCalls
    /\ sqCall' = [op |-> "Read", found |-> sqStream.pos, reads |-> <<sqStream.pos>>,
                  id |-> "", version |-> EmptyStr,
                  result |-> Result(NoSBOM, "", EmptyStr, NoError)]
    /\ sqStream' = AfterRead(sqStream)
    /\ sqN' = sqN + 1
    /\ UNCHANGED sqRest

NoStreamCall ==
    [op |-> "none", found |-> 0, reads |-> << >>, id |-> "", version |-> EmptyStr,
     result |-> Result(NoSBOM, "", EmptyStr, NoError)]

sqIdle ==
    /\ sqStream = NilReader
    /\ sqCall = NoStreamCall
    /\ sqN = 0

sqInit ==
    /\ sqStream \in { r \in Readers : r.kind = "seekable" }
    /\ sqCall = NoStreamCall
    /\ sqN = 0

----------------------------------------------------------------------------
(* findArchiveStartOffset on the contents of the directory end records.
   A uint64 is the sequence of its four 16 bit limbs, lowest first. *)

\* 64 bits in limbs of 16 bits.
Limbs == 64 \div 16
LimbBase == 2^16

\* uint64(n) for an int64 n >= 0 that fits two limbs.
uint64(n) == <<n % LimbBase, n \div LimbBase, 0, 0>>

\* a < b on uint64.
RECURSIVE less64From(_, _, _)
less64From(a, b, i) ==
    IF i = 0 THEN FALSE
    ELSE IF a[i] # b[i] THEN a[i] < b[i]
    ELSE less64From(a, b, i - 1)

less64(a, b) == less64From(a, b, Limbs)

\* a - b on uint64: the difference modulo 2^64.
RECURSIVE sub64From(_, _, _, _)
sub64From(a, b, i, borrow) ==
    IF i > Limbs THEN << >>
    ELSE LET x == a[i] - b[i] - borrow
         IN  IF x < 0
             THEN <<x + LimbBase>> \o sub64From(a, b, i + 1, 1)
             ELSE <<x>> \o sub64From(a, b, i + 1, 0)

sub64(a, b) == sub64From(a, b, 1, 0)

\* int64(x) < 0 for a uint64 x.
negative64(x) == x[Limbs] >= LimbBase \div 2

\* The values of the fields: 0xffff, 0xffffffff and 2^63.
Max16 == <<65535, 0, 0, 0>>
Max32 == <<65535, 65535, 0, 0>>
High64 == <<0, 0, 0, 32768>>

\* What the directory end record holds: directoryRecords (16 bit),
\* directorySize and directoryOffset (32 bit).
DirectoryEnds ==
    [directoryRecords : {uint64(0), uint64(3), Max16},
     directorySize : {uint64(0), uint64(46), uint64(300), Max16, Max32},
     directoryOffset : {uint64(0), uint64(30), uint64(500), Max32}]

\* What the ZIP64 directory end record holds: 64 bit fields.
Directory64Ends ==
    { [directoryRecords |-> uint64(70000), directorySize |-> uint64(46),
       directoryOffset |-> uint64(30)],
      [directoryRecords |-> uint64(3), directorySize |-> <<0, 0, 1, 0>>,
       directoryOffset |-> uint64(30)],
      [directoryRecords |-> uint64(3), directorySize |-> uint64(46),
       directoryOffset |-> High64] }

\* The files: the directory end record at directoryEndOffset with no
\* comment; loc: what lies in the 20 bytes before it ("none": no locator
\* signature, "locator": a locator that gives offset p); end64: whether the
\* 56 bytes at p hold a ZIP64 directory end record, and its fields.
RecordFiles ==
    [directoryEndOffset : {0, 76, 200},
     d : DirectoryEnds,
     loc : {"none", "locator"},
     p : {0, 100},
     end64 : BOOLEAN,
     d64 : Directory64Ends]

recordFileSize(f) == f.directoryEndOffset + directoryEndLen

\* findDirectory64End(r, directoryEndOffset) on these files.
findDirectory64EndOf(f) ==
    IF f.directoryEndOffset - directory64LocLen < 0
    THEN [p |-> -1, err |-> "nil"]
    ELSE IF f.loc = "none"
    THEN [p |-> -1, err |-> "nil"]
    ELSE [p |-> f.p, err |-> "nil"]

\* readDirectory64End(r, offset, d) on these files.
readDirectory64EndOf(f, offset, d) ==
    IF offset + directory64EndLen > recordFileSize(f)
    THEN [err |-> "EOF", d |-> d]
    ELSE IF ~f.end64
    THEN [err |-> "could not read directory64End", d |-> d]
    ELSE [err |-> "nil", d |-> f.d64]

\* The test that sends findArchiveStartOffset to the ZIP64 records.
canBeZip64(d) ==
    \/ d.directoryRecords = Max16
    \/ d.directorySize = Max16
    \/ d.directoryOffset = Max32

\* findArchiveStartOffset from the point where the directory end record has
\* been found and read.
archiveStartOffset(f) ==
    LET d0 == f.d
        is64 == canBeZip64(d0)
        loc == findDirectory64EndOf(f)
        use64 == is64 /\ loc.err = "nil" /\ loc.p >= 0
        read == readDirectory64EndOf(f, loc.p, d0)
        err == IF ~is64 THEN "nil" ELSE IF use64 THEN read.err ELSE loc.err
        d == IF use64 THEN read.d ELSE d0
        directoryEndOffset == IF use64 THEN loc.p ELSE f.directoryEndOffset
        startOfArchive ==
            sub64(sub64(uint64(directoryEndOffset), d.directorySize), d.directoryOffset)
        wrapped ==
            \/ less64(uint64(directoryEndOffset), d.directorySize)
            \/ less64(sub64(uint64(directoryEndOffset), d.directorySize), d.directoryOffset)
    IN  [looked |-> is64,
         d |-> d,
         wrapped |-> wrapped,
         startOfArchive |->
             IF err # "nil" THEN uint64(0)
             ELSE IF negative64(d.directoryOffset)
                     \/ ~less64(d.directoryOffset, uint64(recordFileSize(f)))
             THEN uint64(0)
             ELSE startOfArchive,
         err |->
             IF err # "nil" THEN err
             ELSE IF negative64(d.directoryOffset)
                     \/ ~less64(d.directoryOffset, uint64(recordFileSize(f)))
             THEN ErrFormat
             ELSE "nil"]

\* A call of findArchiveStartOffset on the file.
ArchiveStartOffsetCall ==
    /\ zrPc = "idle"
    /\ zrOut' = archiveStartOffset(zrIn)
    /\ zrPc' = "done"
    /\ UNCHANGED zrIn
    /\ UNCHANGED zrRest

NoRecordFile ==
    [directoryEndOffset |-> 0,
     d |-> [directoryRecords |-> uint64(0), directorySize |-> uint64(0),
            directoryOffset |-> uint64(0)],
     loc |-> "none", p |-> 0, end64 |-> FALSE,
     d64 |-> [directoryRecords |-> uint64(0), directorySize |-> uint64(0),
              directoryOffset |-> uint64(0)]]

NoStartOffset ==
    [looked |-> FALSE, d |-> NoRecordFile.d, wrapped |-> FALSE,
     startOfArchive |-> uint64(0), err |-> "nil"]

zrIdle ==
    /\ zrIn = NoRecordFile
    /\ zrPc = "idle"
    /\ zrOut = NoStartOffset

zrInit ==
    /\ zrIn \in RecordFiles
    /\ zrPc = "idle"
    /\ zrOut = NoStartOffset

----------------------------------------------------------------------------
(* file.OpenZip and file.TraverseFilesInZip: the file handle *)

\* Bound of this model: the files of the archive TraverseFilesInZip visits.
MaxZipFiles == 2

\* OpenZip(filepath): the state of the handle it leaves, the ZipReadCloser
\* and the error it returns. Only the failure of Stat closes the file.
OpenZip(in) ==
    IF ~in.open THEN [handle |-> "none", reader |-> "nil", err |-> "open"]
    ELSE IF ~in.stat THEN [handle |-> "closed", reader |-> "nil", err |-> "stat"]
    ELSE IF ~in.offset
    THEN [handle |-> "open", reader |-> "nil",
          err |-> "cannot find beginning of zip archive"]
    ELSE IF ~in.seek
    THEN [handle |-> "open", reader |-> "nil",
          err |-> "unable to seek to beginning of archive"]
    ELSE IF ~in.reader
    THEN [handle |-> "open", reader |-> "nil", err |-> "unable to open ZipReadCloser"]
    ELSE [handle |-> "open", reader |-> "ZipReadCloser", err |-> "nil"]

\* A caller calls OpenZip and keeps what it returns.
OpenZipHeld ==
    /\ ohPc = "idle"
    /\ LET got == OpenZip(ohIn)
       IN  /\ ohHandle' = got.handle
           /\ ohResult' = [op |-> "OpenZip", reader |-> got.reader, err |-> got.err,
                           callerErr |-> "nil"]
           /\ ohPc' = IF got.err = "nil" THEN "held" ELSE "done"
    /\ UNCHANGED <<ohIn, ohI>>
    /\ UNCHANGED ohRest

\* The caller calls Close on the ZipReadCloser: the Closer is the file.
CloseHeld ==
    /\ ohPc = "held"
    /\ ohHandle' = "closed"
    /\ ohResult' = [ohResult EXCEPT !.callerErr = IF ohIn.closeOK THEN "nil" ELSE "close"]
    /\ ohPc' = "done"
    /\ UNCHANGED <<ohIn, ohI>>
    /\ UNCHANGED ohRest

\* TraverseFilesInZip up to its loop.
TraverseFilesInZipBegin ==
    /\ ohPc = "idle"
    /\ LET got == OpenZip(ohIn)
       IN  /\ ohHandle' = got.handle
           /\ ohResult' = [op |-> "TraverseFilesInZip", reader |-> got.reader,
                           err |-> got.err,
                           callerErr |-> IF got.err = "nil" THEN "nil"
                                         ELSE "unable to open zip archive"]
           /\ ohPc' = IF got.err = "nil" THEN "loop" ELSE "done"
    /\ ohI' = 1
    /\ UNCHANGED ohIn
    /\ UNCHANGED ohRest

\* One file of the loop: the visitor returns an error or not; on an error
\* the function returns and the deferred Close runs.
TraverseFilesInZipVisit ==
    /\ ohPc = "loop"
    /\ ohI <= ohIn.files
    /\ IF ohIn.failsAt = ohI
       THEN /\ ohPc' = "done"
            /\ ohHandle' = "closed"
            /\ ohResult' = [ohResult EXCEPT !.callerErr = "visitor"]
            /\ ohI' = ohI
       ELSE /\ ohI' = ohI + 1
            /\ UNCHANGED <<ohPc, ohHandle, ohResult>>
    /\ UNCHANGED ohIn
    /\ UNCHANGED ohRest

\* After the loop: return nil, and the deferred Close runs.
TraverseFilesInZipEnd ==
    /\ ohPc = "loop"
    /\ ohI > ohIn.files
    /\ ohPc' = "done"
    /\ ohHandle' = "closed"
    /\ UNCHANGED <<ohIn, ohI, ohResult>>
    /\ UNCHANGED ohRest

NoOpenZip == [op |-> "none", reader |-> "nil", err |-> "nil", callerErr |-> "nil"]

ohIdle ==
    /\ ohIn = [open |-> TRUE, stat |-> TRUE, offset |-> TRUE, seek |-> TRUE,
               reader |-> TRUE, files |-> 0, failsAt |-> 0, closeOK |-> TRUE]
    /\ ohPc = "idle"
    /\ ohI = 1
    /\ ohHandle = "none"
    /\ ohResult = NoOpenZip

ohInit ==
    /\ ohIn \in [open : BOOLEAN, stat : BOOLEAN, offset : BOOLEAN, seek : BOOLEAN,
                 reader : BOOLEAN, files : 0..MaxZipFiles, failsAt : 0..MaxZipFiles,
                 closeOK : BOOLEAN]
    /\ ohPc = "idle"
    /\ ohI = 1
    /\ ohHandle = "none"
    /\ ohResult = NoOpenZip

----------------------------------------------------------------------------
(* file.Location.WithAnnotation and the redhat package constructors *)

\* Bound of this model: the calls made on the location.
MaxAnnotationCalls == 2

WithKeys == {"evidence", "note"}
WithMaps == UNION { [D -> AnnValues] : D \in SUBSET WithKeys }

\* m[k0] = value on a map's contents.
mapAssign(m, k0, value) ==
    [k \in DOMAIN m \cup {k0} |-> IF k = k0 THEN value ELSE m[k]]

\* Location.WithAnnotation(key, value) for a receiver whose Annotations map
\* is at addr: the heap after the call and the address of the map of the
\* location returned. The receiver is a copy of the caller's struct, its map
\* is the caller's map unless that is nil.
WithAnnotation(h, addr, k0, value) ==
    IF addr = NilMap
    THEN [heap |-> Append(h, mapAssign(<< >>, k0, value)), Annotations |-> Len(h) + 1]
    ELSE [heap |-> [h EXCEPT ![addr] = mapAssign(h[addr], k0, value)],
          Annotations |-> addr]

\* l.WithAnnotation(key, value) on the caller's location.
WithAnnotationCall ==
    /\ waN < MaxAnnotationCalls
    /\ \E k0 \in WithKeys, value \in AnnValues :
        LET got == WithAnnotation(waHeap, waOrig, k0, value)
        IN  /\ waHeap' = got.heap
            /\ waCall' = [op |-> "WithAnnotation", key |-> k0, value |-> value,
                          before |-> waHeap, returned |-> got.Annotations]
    /\ waN' = waN + 1
    /\ UNCHANGED <<waOrig, waEntry>>
    /\ UNCHANGED waRest

\* newDBPackage(dbOrRpmLocation, ...): the package's Locations are
\* NewLocationSet(dbOrRpmLocation.WithAnnotation(evidence, primary)); the
\* set's entry keeps the map of the location returned.
newDBPackageCall ==
    /\ waN < MaxAnnotationCalls
    /\ LET got == WithAnnotation(waHeap, waOrig, "evidence", "primary")
       IN  /\ waHeap' = got.heap
           /\ waCall' = [op |-> "newDBPackage", key |-> "evidence", value |-> "primary",
                         before |-> waHeap, returned |-> got.Annotations]
    /\ waN' = waN + 1
    /\ UNCHANGED <<waOrig, waEntry>>
    /\ UNCHANGED waRest

\* newArchivePackage(archiveLocation, ...): the same for an archive.
newArchivePackageCall ==
    /\ waN < MaxAnnotationCalls
    /\ LET got == WithAnnotation(waHeap, waOrig, "evidence", "primary")
       IN  /\ waHeap' = got.heap
           /\ waCall' = [op |-> "newArchivePackage", key |-> "evidence",
                         value |-> "primary",
                         before |-> waHeap, returned |-> got.Annotations]
    /\ waN' = waN + 1
    /\ UNCHANGED <<waOrig, waEntry>>
    /\ UNCHANGED waRest

NoAnnotationCall ==
    [op |-> "none", key |-> "", value |-> "", before |-> << >>, returned |-> NilMap]

waIdle ==
    /\ waHeap = << >>
    /\ waOrig = NilMap
    /\ waEntry = NilMap
    /\ waCall = NoAnnotationCall
    /\ waN = 0

\* The caller's location has a nil map (a struct literal) or a map of its own
\* (NewLocation and the other constructors); a LocationSet the location was
\* added to holds the same map.
waInit ==
    /\ \/ waHeap = << >> /\ waOrig = NilMap
       \/ \E m \in WithMaps : waHeap = <<m>> /\ waOrig = 1
    /\ waEntry = waOrig
    /\ waCall = NoAnnotationCall
    /\ waN = 0

----------------------------------------------------------------------------
(* sbom.SBOM.AllCoordinates *)

\* Bound of this model: the keys of each artifact map of the SBOM.
MaxKeys == 1

\* The coordinates of the files of the SBOM.
CoordinatePool ==
    { Coordinates("/b", ""), Coordinates("/a", "l1"), Coordinates("/a", "") }

\* The endpoints of a relationship: a package, or the coordinates of a file.
CoordinatesEndpoint(c) ==
    [kind |-> "coordinates", id |-> 0, RealPath |-> c.RealPath,
     FileSystemID |-> c.FileSystemID]

FileRelationships ==
    { Relationship(Package(1), Package(2), ContainsRelationship, 0),
      Relationship(Package(1), CoordinatesEndpoint(Coordinates("/b", "")),
                   ContainsRelationship, 0),
      Relationship(CoordinatesEndpoint(Coordinates("/a", "l1")), Package(1),
                   EvidentByRelationship, 0),
      Relationship(CoordinatesEndpoint(Coordinates("/b", "")),
                   CoordinatesEndpoint(Coordinates("/a", "")),
                   ContainsRelationship, 0) }

KeySets == { K \in SUBSET CoordinatePool : Cardinality(K) <= MaxKeys }

\* The SBOMs: the key set of each map of Artifacts, and the relationships.
ArtifactSBOMs ==
    [FileMetadata : KeySets, FileDigests : KeySets, FileContents : KeySets,
     FileLicenses : KeySets, Executables : KeySets,
     Relationships : { << >> } \cup { <<r>> : r \in FileRelationships }]

\* The coordinates extractCoordinates gives for the relationships.
relationshipCoordinates(rs) ==
    { Coordinates(e.RealPath, e.FileSystemID) : e \in Range(coordinatesOf(rs)) }

\* The set AllCoordinates collects before ToSlice.
collected(s) ==
    s.FileMetadata \cup s.FileContents \cup s.FileDigests
        \cup relationshipCoordinates(s.Relationships)

\* SBOM.AllCoordinates(): what it can return, for every order of the range
\* loop of ToSlice. A set nothing was added to gives nil, the empty slice here.
AllCoordinates(s) ==
    { ToSlice([isNil |-> collected(s) = {}, set |-> collected(s)], order) :
        order \in elementOrders(collected(s)) }

\* A call of AllCoordinates.
AllCoordinatesCall ==
    /\ ~acResult.called
    /\ \E value \in AllCoordinates(acSBOM) :
        acResult' = [called |-> TRUE, value |-> value]
    /\ UNCHANGED acSBOM
    /\ UNCHANGED acRest

acIdle ==
    /\ acSBOM = [FileMetadata |-> {}, FileDigests |-> {}, FileContents |-> {},
                 FileLicenses |-> {}, Executables |-> {}, Relationships |-> << >>]
    /\ acResult = [called |-> FALSE, value |-> << >>]

acInit ==
    /\ acSBOM \in ArtifactSBOMs
    /\ acResult = [called |-> FALSE, value |-> << >>]

----------------------------------------------------------------------------
(* options.EncodersConfig.Encoders *)

AllVersions == "all-versions"

\* The format ids.
TemplateID == "template"
SyftJSONID == "syft-json"
TableID == "syft-table"
TextID == "syft-text"
GithubID == "github-json"
CyclonedxXMLID == "cyclonedx-xml"
CyclonedxJSONID == "cyclonedx-json"
SpdxJSONID == "spdx-json"
SpdxTagValueID == "spdx-tag-value"

MultiVersionFormats == {CyclonedxXMLID, CyclonedxJSONID, SpdxJSONID, SpdxTagValueID}

\* SupportedVersions() of a multi-version format: two versions each here.
SupportedVersions(format) == <<"v1", "v2">>

\* An encoder: its format and its version.
FormatEncoder(format, version) == <<format, version>>

\* NewFormatEncoderWithConfig of a format for a version: whether it returns
\* an error. The constructor of the SPDX JSON encoder never does; the others
\* fail for the versions the configuration says.
constructorFails(cfg, format, version) ==
    IF format = SpdxJSONID THEN FALSE ELSE version \in cfg.failing[format]

\* cyclonedxXMLEncoders, cyclonedxJSONEncoders, spdxJSONEncoders and
\* spdxTagValueEncoders: the loop over the versions, from version i on.
RECURSIVE versionEncoders(_, _, _, _, _)
versionEncoders(cfg, format, versions, i, acc) ==
    IF i > Len(versions) THEN acc
    ELSE IF constructorFails(cfg, format, versions[i])
    THEN versionEncoders(cfg, format, versions, i + 1,
                         [acc EXCEPT !.errs = Append(acc.errs, <<format, versions[i]>>)])
    ELSE versionEncoders(cfg, format, versions, i + 1,
                         [acc EXCEPT !.encs = Append(acc.encs, FormatEncoder(format, versions[i]))])

multiVersionEncoders(cfg, format) ==
    LET versions == IF cfg.version[format] = AllVersions
                    THEN SupportedVersions(format)
                    ELSE <<cfg.version[format]>>
    IN  versionEncoders(cfg, format, versions, 1, [encs |-> << >>, errs |-> << >>])

cyclonedxXMLEncoders(cfg) == multiVersionEncoders(cfg, CyclonedxXMLID)
cyclonedxJSONEncoders(cfg) == multiVersionEncoders(cfg, CyclonedxJSONID)
spdxJSONEncoders(cfg) == multiVersionEncoders(cfg, SpdxJSONID)
spdxTagValueEncoders(cfg) == multiVersionEncoders(cfg, SpdxTagValueID)

\* templateEncoders, syftJSONEncoders: one encoder, nil with an error.
templateEncoders(cfg) ==
    IF cfg.Template = "fail"
    THEN [encs |-> <<"nil">>, errs |-> <<<<TemplateID, "">>>>]
    ELSE [encs |-> <<FormatEncoder(TemplateID, "")>>, errs |-> << >>]

syftJSONEncoders(cfg) ==
    IF cfg.SyftJSON = "fail"
    THEN [encs |-> <<"nil">>, errs |-> <<<<SyftJSONID, "">>>>]
    ELSE [encs |-> <<FormatEncoder(SyftJSONID, "")>>, errs |-> << >>]

\* encodersList.add(name)(encs...)
add(l, name, encs) ==
    [encoders |-> l.encoders \o SelectSeq(encs, LAMBDA e : e # "nil"),
     err |-> l.err \o [i \in 1..Len(SelectSeq(encs, LAMBDA e : e = "nil")) |->
                          <<name, "nil encoder returned">>]]

\* encodersList.addWithErr(name)(encs, err): with an error the encoders of
\* the call are not added.
addWithErr(l, name, got) ==
    IF got.errs # << >>
    THEN [l EXCEPT !.err = Append(l.err, <<name, got.errs>>)]
    ELSE add(l, name, got.encs)

\* EncodersConfig.Encoders()
Encoders(cfg) ==
    LET l0 == [encoders |-> << >>, err |-> << >>]
        l1 == IF cfg.Template # "" THEN addWithErr(l0, TemplateID, templateEncoders(cfg))
              ELSE l0
        l2 == addWithErr(l1, SyftJSONID, syftJSONEncoders(cfg))
        l3 == add(l2, TableID, <<FormatEncoder(TableID, "")>>)
        l4 == add(l3, TextID, <<FormatEncoder(TextID, "")>>)
        l5 == add(l4, GithubID, <<FormatEncoder(GithubID, "")>>)
        l6 == addWithErr(l5, CyclonedxXMLID, cyclonedxXMLEncoders(cfg))
        l7 == addWithErr(l6, CyclonedxJSONID, cyclonedxJSONEncoders(cfg))
        l8 == addWithErr(l7, SpdxJSONID, spdxJSONEncoders(cfg))
    IN  addWithErr(l8, SpdxTagValueID, spdxTagValueEncoders(cfg))

\* A call of Encoders.
EncodersCall ==
    /\ ~enResult.called
    /\ enResult' = [called |-> TRUE, encoders |-> Encoders(enCfg).encoders,
                    err |-> Encoders(enCfg).err]
    /\ UNCHANGED enCfg
    /\ UNCHANGED enRest

enIdle ==
    /\ enCfg = [Template |-> "", SyftJSON |-> "ok",
                version |-> [f \in MultiVersionFormats |-> AllVersions],
                failing |-> [f \in MultiVersionFormats |-> {}]]
    /\ enResult = [called |-> FALSE, encoders |-> << >>, err |-> << >>]

enInit ==
    /\ enCfg \in [Template : {"", "ok", "fail"}, SyftJSON : {"ok", "fail"},
                  version : [MultiVersionFormats -> {AllVersions, "v1", "v9"}],
                  failing : [MultiVersionFormats -> {{}, {"v1"}, {"v9"}}]]
    /\ enCfg.failing[SpdxJSONID] = {}
    /\ enResult = [called |-> FALSE, encoders |-> << >>, err |-> << >>]

----------------------------------------------------------------------------
(* The specifications, one per component *)

lsIdle == lsInit

\* The decoder and encoder collections when another component runs: empty.
dcRestIdle == dcIdle /\ decoders = << >>
ecRestIdle == ecIdle /\ encoders = << >>

InitLocationSet == lsInit /\ dcRestIdle /\ ecRestIdle /\ gsIdle /\ zxIdle /\ zoIdle /\ sbIdle /\ coIdle /\ mgIdle /\ srIdle /\ anIdle /\ hsIdle /\ exIdle /\ sqIdle /\ zrIdle /\ ohIdle /\ waIdle /\ acIdle /\ enIdle
NextLocationSet == Add \/ AddFresh \/ Remove
SpecLocationSet == InitLocationSet /\ [][NextLocationSet]_vars

InitDecoders == lsIdle /\ dcInit /\ ecRestIdle /\ gsIdle /\ zxIdle /\ zoIdle /\ sbIdle /\ coIdle /\ mgIdle /\ srIdle /\ anIdle /\ hsIdle /\ exIdle /\ sqIdle /\ zrIdle /\ ohIdle /\ waIdle /\ acIdle /\ enIdle
NextDecoders == DecodeBegin \/ DecodeIterate \/ DecodeEnd \/ SpdxDecodeCall
SpecDecoders == InitDecoders /\ [][NextDecoders]_vars

InitEncoders == lsIdle /\ dcRestIdle /\ ecInit /\ gsIdle /\ zxIdle /\ zoIdle /\ sbIdle /\ coIdle /\ mgIdle /\ srIdle /\ anIdle /\ hsIdle /\ exIdle /\ sqIdle /\ zrIdle /\ ohIdle /\ waIdle /\ acIdle /\ enIdle
NextEncoders == GetCall \/ GetByStringCall
SpecEncoders == InitEncoders /\ [][NextEncoders]_vars

InitGetSource == lsIdle /\ dcRestIdle /\ ecRestIdle /\ gsInit /\ zxIdle /\ zoIdle /\ sbIdle /\ coIdle /\ mgIdle /\ srIdle /\ anIdle /\ hsIdle /\ exIdle /\ sqIdle /\ zrIdle /\ ohIdle /\ waIdle /\ acIdle /\ enIdle
NextGetSource == GetSourceBegin \/ Provide \/ GetSourceEnd
SpecGetSource == InitGetSource /\ [][NextGetSource]_vars

InitUnzip == lsIdle /\ dcRestIdle /\ ecRestIdle /\ gsIdle /\ zxIdle /\ zoIdle /\ sbIdle /\ coIdle /\ mgIdle /\ srIdle /\ anIdle /\ hsIdle /\ exIdle /\ sqIdle /\ zrIdle /\ ohIdle /\ waIdle /\ acIdle /\ enIdle
NextUnzip == UnzipBegin \/ UnzipVisit \/ UnzipEnd
SpecUnzip == InitUnzip /\ [][NextUnzip]_vars

InitOpenZip == lsIdle /\ dcRestIdle /\ ecRestIdle /\ gsIdle /\ zxIdle /\ zoInit /\ sbIdle /\ coIdle /\ mgIdle /\ srIdle /\ anIdle /\ hsIdle /\ exIdle /\ sqIdle /\ zrIdle /\ ohIdle /\ waIdle /\ acIdle /\ enIdle
NextOpenZip == FindArchiveStartOffsetCall \/ OpenZipCall
SpecOpenZip == InitOpenZip /\ [][NextOpenZip]_vars

InitSBOM == lsIdle /\ dcRestIdle /\ ecRestIdle /\ gsIdle /\ zxIdle /\ zoIdle /\ sbInit /\ coIdle /\ mgIdle /\ srIdle /\ anIdle /\ hsIdle /\ exIdle /\ sqIdle /\ zrIdle /\ ohIdle /\ waIdle /\ acIdle /\ enIdle
NextSBOM == RelationshipsForPackageCall \/ CoordinatesForPackageCall \/ RelationshipsSortedCall
SpecSBOM == InitSBOM /\ [][NextSBOM]_vars

InitCPEOrder == lsIdle /\ dcRestIdle /\ ecRestIdle /\ gsIdle /\ zxIdle /\ zoIdle /\ sbIdle /\ coInit /\ mgIdle /\ srIdle /\ anIdle /\ hsIdle /\ exIdle /\ sqIdle /\ zrIdle /\ ohIdle /\ waIdle /\ acIdle /\ enIdle
NextCPEOrder == LessCalls
SpecCPEOrder == InitCPEOrder /\ [][NextCPEOrder]_vars

InitMerge == lsIdle /\ dcRestIdle /\ ecRestIdle /\ gsIdle /\ zxIdle /\ zoIdle /\ sbIdle /\ coIdle /\ mgInit /\ srIdle /\ anIdle /\ hsIdle /\ exIdle /\ sqIdle /\ zrIdle /\ ohIdle /\ waIdle /\ acIdle /\ enIdle
NextMerge == MergeCall
SpecMerge == InitMerge /\ [][NextMerge]_vars

InitSelection == lsIdle /\ dcRestIdle /\ ecRestIdle /\ gsIdle /\ zxIdle /\ zoIdle /\ sbIdle /\ coIdle /\ mgIdle /\ srInit /\ anIdle /\ hsIdle /\ exIdle /\ sqIdle /\ zrIdle /\ ohIdle /\ waIdle /\ acIdle /\ enIdle
NextSelection == WithExpressionCall
SpecSelection == InitSelection /\ [][NextSelection]_vars

InitAnnotations == lsIdle /\ dcRestIdle /\ ecRestIdle /\ gsIdle /\ zxIdle /\ zoIdle /\ sbIdle /\ coIdle /\ mgIdle /\ srIdle /\ anIdle /\ hsIdle /\ exIdle /\ sqIdle /\ zrIdle /\ ohIdle /\ waIdle /\ acIdle /\ enIdle
NextAnnotations == AddShared \/ AddOwn
SpecAnnotations == InitAnnotations /\ [][NextAnnotations]_vars

InitHash == lsIdle /\ dcRestIdle /\ ecRestIdle /\ gsIdle /\ zxIdle /\ zoIdle /\ sbIdle /\ coIdle /\ mgIdle /\ srIdle /\ anIdle /\ hsInit /\ exIdle /\ sqIdle /\ zrIdle /\ ohIdle /\ waIdle /\ acIdle /\ enIdle
NextHash == HashCall
SpecHash == InitHash /\ [][NextHash]_vars

InitCatalog == lsIdle /\ dcRestIdle /\ ecRestIdle /\ gsIdle /\ zxIdle /\ zoIdle /\ sbIdle /\ coIdle /\ mgIdle /\ srIdle /\ anIdle /\ hsIdle /\ exInit /\ sqIdle /\ zrIdle /\ ohIdle /\ waIdle /\ acIdle /\ enIdle
NextCatalog == CatalogBegin \/ CatalogVisit \/ CatalogEnd
SpecCatalog == InitCatalog /\ [][NextCatalog]_vars

InitStream == lsIdle /\ dcRestIdle /\ ecRestIdle /\ gsIdle /\ zxIdle /\ zoIdle /\ sbIdle /\ coIdle /\ mgIdle /\ srIdle /\ anIdle /\ hsIdle /\ exIdle /\ sqInit /\ zrIdle /\ ohIdle /\ waIdle /\ acIdle /\ enIdle
NextStream == IdentifyOnStream \/ DecodeOnStream \/ ReadOnStream
SpecStream == InitStream /\ [][NextStream]_vars

InitZipRecords == lsIdle /\ dcRestIdle /\ ecRestIdle /\ gsIdle /\ zxIdle /\ zoIdle /\ sbIdle /\ coIdle /\ mgIdle /\ srIdle /\ anIdle /\ hsIdle /\ exIdle /\ sqIdle /\ zrInit /\ ohIdle /\ waIdle /\ acIdle /\ enIdle
NextZipRecords == ArchiveStartOffsetCall
SpecZipRecords == InitZipRecords /\ [][NextZipRecords]_vars

InitZipHandle == lsIdle /\ dcRestIdle /\ ecRestIdle /\ gsIdle /\ zxIdle /\ zoIdle /\ sbIdle /\ coIdle /\ mgIdle /\ srIdle /\ anIdle /\ hsIdle /\ exIdle /\ sqIdle /\ zrIdle /\ ohInit /\ waIdle /\ acIdle /\ enIdle
NextZipHandle == OpenZipHeld \/ CloseHeld \/ TraverseFilesInZipBegin \/ TraverseFilesInZipVisit \/ TraverseFilesInZipEnd
SpecZipHandle == InitZipHandle /\ [][NextZipHandle]_vars

InitWithAnnotation == lsIdle /\ dcRestIdle /\ ecRestIdle /\ gsIdle /\ zxIdle /\ zoIdle /\ sbIdle /\ coIdle /\ mgIdle /\ srIdle /\ anIdle /\ hsIdle /\ exIdle /\ sqIdle /\ zrIdle /\ ohIdle /\ waInit /\ acIdle /\ enIdle
NextWithAnnotation == WithAnnotationCall \/ newDBPackageCall \/ newArchivePackageCall
SpecWithAnnotation == InitWithAnnotation /\ [][NextWithAnnotation]_vars

InitAllCoordinates == lsIdle /\ dcRestIdle /\ ecRestIdle /\ gsIdle /\ zxIdle /\ zoIdle /\ sbIdle /\ coIdle /\ mgIdle /\ srIdle /\ anIdle /\ hsIdle /\ exIdle /\ sqIdle /\ zrIdle /\ ohIdle /\ waIdle /\ acInit /\ enIdle
NextAllCoordinates == AllCoordinatesCall
SpecAllCoordinates == InitAllCoordinates /\ [][NextAllCoordinates]_vars

InitEncodersConfig == lsIdle /\ dcRestIdle /\ ecRestIdle /\ gsIdle /\ zxIdle /\ zoIdle /\ sbIdle /\ coIdle /\ mgIdle /\ srIdle /\ anIdle /\ hsIdle /\ exIdle /\ sqIdle /\ zrIdle /\ ohIdle /\ waIdle /\ acIdle /\ enInit
NextEncodersConfig == EncodersCall
SpecEncodersConfig == InitEncodersConfig /\ [][NextEncodersConfig]_vars

----------------------------------------------------------------------------
(* file.LocationSet: claims *)

\* C1 as stated: the set holds at most one location per Coordinates.
C1_OnePerCoordinates ==
    \A d1 \in DOMAIN set, d2 \in DOMAIN set :
        d1.Coordinates = d2.Coordinates => d1 = d2

\* C1 as amended: the entries are keyed by the whole LocationData
\* (coordinates, access path and file reference). Add of a location whose
\* LocationData is present changes no entry count whatever its annotations,
\* Add of one whose LocationData is absent adds one entry even when its
\* coordinates are present, Remove takes away the entry with that
\* LocationData and no other, and Contains answers for the LocationData.
C1_OnePerLocationData ==
    /\ lastOp.op = "Add" => lastOp.delta = (IF lastOp.had THEN 0 ELSE 1)
    /\ lastOp.op = "Remove" => lastOp.delta = (IF lastOp.had THEN -1 ELSE 0)
    /\ \A d \in LocationDatas : Contains(set, setIsNil, d) <=> d \in DOMAIN set

\* An Add of a location that was present has run, and the set holds two
\* locations with the same coordinates.
C1_Witness ==
    /\ lastOp.op = "Add"
    /\ lastOp.had
    /\ \E d1 \in DOMAIN set, d2 \in DOMAIN set :
        d1.Coordinates = d2.Coordinates /\ d1 # d2

----------------------------------------------------------------------------
(* format.DecoderCollection and the SPDX JSON decoder: claims *)

\* The stream of the call as it was handed over: at its start.
Handed == [stream EXCEPT !.pos = 0]

\* Decode of the collection (not of a single decoder) has returned.
CollectionDone ==
    dcPc = "done" /\ (dcCalls = << >> \/ dcCalls[1][1] # "Direct")

\* Decoder i reports both a format id and a version for the stream.
Both(i) ==
    LET got == Identify(decoders[i], Handed)
    IN  got.id # "" /\ got.version # EmptyStr

\* Decoder i reports a format id and no version for the stream.
IDOnly(i) ==
    LET got == Identify(decoders[i], Handed)
    IN  got.id # "" /\ got.version = EmptyStr

\* The first decoder, in collection order, that reports both.
FirstBoth ==
    CHOOSE i \in 1 .. Len(decoders) : Both(i) /\ \A j \in 1 .. (i - 1) : ~Both(j)

\* C2: Decode asks the decoders in collection order, hands over to the
\* first one whose Identify gives an id and a version and returns that
\* decoder's result; it asks no decoder after it, and an earlier decoder
\* that gave only an id does not change the choice.
C2_FirstIdentifiedDecodes ==
    /\ \A k \in 1 .. Len(dcCalls) :
        dcCalls[k][1] = "Identify" => dcCalls[k][2] = k
    /\ (CollectionDone /\ stream.kind # "nil" /\ \E i \in 1 .. Len(decoders) : Both(i)) =>
        /\ Len(dcCalls) = FirstBoth + 1
        /\ \A k \in 1 .. FirstBoth : dcCalls[k] = <<"Identify", k>>
        /\ dcCalls[FirstBoth + 1] = <<"Decode", FirstBoth>>
        /\ dcResult = Decode(decoders[FirstBoth], Handed)

\* The chosen decoder is not the first of the collection, a decoder before
\* it gave only an id, and a decoder after it was never asked.
C2_Witness ==
    /\ CollectionDone
    /\ stream.kind # "nil"
    /\ \E i \in 1 .. Len(decoders) : Both(i)
    /\ FirstBoth > 1
    /\ FirstBoth < Len(decoders)
    /\ \E j \in 1 .. (FirstBoth - 1) : IDOnly(j)
    /\ dcResult.id = Identify(decoders[FirstBoth], Handed).id
    /\ dcResult.id # Identify(decoders[Len(decoders)], Handed).id

\* The result of a Decode that found no decoder: by the ids reported.
NoDecoderOutcome ==
    /\ dcResult.sbom = NoSBOM
    /\ dcResult.version = EmptyStr
    /\ dcResult.err # NoError
    /\ IF \E i \in 1 .. Len(decoders) : IDOnly(i)
       THEN /\ dcResult.err = "version is not supported"
            /\ \E i \in 1 .. Len(decoders) :
                IDOnly(i) /\ dcResult.id = Identify(decoders[i], Handed).id
       ELSE /\ dcResult.err = "sbom format not recognized"
            /\ dcResult.id = ""

KnownSpdxVersions == { <<"2", ".", "1">>, <<"2", ".", "2">>, <<"2", ".", "3">> }

\* The stream holds a JSON document whose spdxVersion starts with "SPDX-"
\* and names no known version.
UnknownSpdxVersion ==
    /\ stream.kind = "seekable"
    /\ stream.seekOK
    /\ stream.doc.json
    /\ HasPrefix(stream.doc.spdxVersion, <<"S", "P", "D", "X", "-">>)
    /\ From(stream.doc.spdxVersion, 6) \notin KnownSpdxVersions

\* C4: through the default collection, a document of the SPDX family with
\* an unknown or unparsable version gives "version not supported" with id
\* spdx-json, and its body is not decoded.
C4_UnknownVersionReported ==
    (CollectionDone /\ decoders = Decoders /\ UnknownSpdxVersion) =>
        /\ dcResult = Result(NoSBOM, ID, EmptyStr, "version is not supported")
        /\ \A k \in 1 .. Len(dcCalls) : dcCalls[k][1] # "Decode"

\* The stream is an SPDX JSON 2.3 document whose body cannot be read or
\* converted.
Malformed23 ==
    /\ stream.kind = "seekable"
    /\ stream.seekOK
    /\ stream.doc.json
    /\ ToLower(stream.doc.spdxVersion) = <<"s", "p", "d", "x", "-", "2", ".", "3">>
    /\ ~(stream.doc.bodyOK /\ stream.doc.modelOK)

\* The SPDX JSON decoder's Decode ran, called directly or by the collection.
SpdxDecodeRan ==
    /\ dcPc = "done"
    /\ dcCalls # << >>
    /\ LET last == dcCalls[Len(dcCalls)]
       IN  \/ last[1] = "Direct"
           \/ last[1] = "Decode" /\ decoders[last[2]].kind = "spdxjson"

\* C5: Decode of a stream identified as SPDX JSON 2.3 whose body cannot be
\* read returns nil and an error together with the id spdx-json and the
\* version 2.3, from the decoder and from a collection that dispatches to it.
C5_MalformedBodyKeepsIDAndVersion ==
    (SpdxDecodeRan /\ Malformed23) =>
        /\ dcResult.sbom = NoSBOM
        /\ dcResult.err # NoError
        /\ dcResult.id = "spdx-json"
        /\ dcResult.version = <<"2", ".", "3">>

\* A collection asked other decoders first and then dispatched to the
\* SPDX JSON decoder, which failed on the body.
C5_Witness ==
    /\ SpdxDecodeRan
    /\ Malformed23
    /\ Len(dcCalls) >= 3
    /\ dcResult.err = "unable to decode spdx json"
    /\ dcResult.id = ID

----------------------------------------------------------------------------
(* format.EncoderCollection: claims *)

\* A lookup has returned.
Looked == ecQuery.op # "none"

\* Encoder i answers to the name looked up.
NameMatches(i) ==
    \E k \in 1 .. Len(namesOf(encoders[i])) :
        cleanFormatName(namesOf(encoders[i])[k]) = cleanFormatName(ecQuery.name)

\* The number a run of digits denotes.
RECURSIVE Number(_)
Number(ds) ==
    IF ds = << >> THEN 0
    ELSE 10 * Number(SubSeq(ds, 1, Len(ds) - 1)) + (Code[ds[Len(ds)]] - Code["0"])

\* a is greater than b, both sequences of numbers, compared place by place.
RECURSIVE NumbersGreater(_, _)
NumbersGreater(a, b) ==
    IF a = << >> THEN FALSE
    ELSE IF b = << >> THEN TRUE
    ELSE IF a[1] # b[1] THEN a[1] > b[1]
    ELSE NumbersGreater(Tail(a), Tail(b))

\* The numbers of a dotted version; none for the empty version.
Dotted(v) ==
    IF v = EmptyStr THEN << >>
    ELSE LET fields == Split(v, ".") IN [i \in 1 .. Len(fields) |-> Number(fields[i])]

\* Version a is higher than version b as dotted version numbers.
VersionHigher(a, b) == NumbersGreater(Dotted(a), Dotted(b))

\* The encoders that match the lookup by name and by version.
Matching(encs) ==
    { i \in 1 .. Len(encs) :
        /\ \E k \in 1 .. Len(namesOf(encs[i])) :
            cleanFormatName(namesOf(encs[i])[k]) = cleanFormatName(ecQuery.name)
        /\ versionMatches(encs[i].version, ecQuery.version) }

\* The orders the encoders of the collection can be given in.
Reorderings ==
    { p \in [1 .. Len(encoders) -> 1 .. Len(encoders)] :
        \A i, j \in 1 .. Len(encoders) : i # j => p[i] # p[j] }

\* C6: Get returns, among the encoders matching name and version, the one
\* with the highest dotted version number, whatever the order of the
\* collection, and nil only when none matches.
C6_HighestVersionWins ==
    (Looked /\ ecQuery.op = "Get") =>
        /\ ecResult = 0 <=> Matching(encoders) = {}
        /\ ecResult # 0 =>
            /\ ecResult \in Matching(encoders)
            /\ \A j \in Matching(encoders) :
                ~VersionHigher(encoders[j].version, encoders[ecResult].version)
            /\ \A p \in Reorderings :
                LET other == [i \in 1 .. Len(encoders) |-> encoders[p[i]]]
                    got == Get(other, ecQuery.name, ecQuery.version)
                IN  got # 0 /\ other[got] = encoders[ecResult]

\* s matches the glob g: "*" is any run of characters, every other
\* character is itself.
RECURSIVE Glob(_, _)
Glob(g, s) ==
    IF g = << >> THEN s = << >>
    ELSE IF g[1] = "*"
    THEN \E k \in 0 .. Len(s) : Glob(Tail(g), From(s, k + 1))
    ELSE s # << >> /\ s[1] = g[1] /\ Glob(Tail(g), Tail(s))

\* s matches the glob g, or starts with a match of g that a "." follows.
GlobOrDottedPrefix(g, s) ==
    \/ Glob(g, s)
    \/ \E k \in 0 .. (Len(s) - 1) : Glob(g, SubSeq(s, 1, k)) /\ s[k + 1] = "."

\* Every encoder of the collection has a concrete version.
AllConcrete == \A i \in 1 .. Len(encoders) : encoders[i].version # AnyVersion

\* C7 as stated: for a lookup "name@V" an encoder with a concrete version
\* is a version match exactly if V is empty or matches the whole version as
\* a glob.
C7_VersionIsGlob ==
    (Looked /\ ecQuery.op = "GetByString" /\ AllConcrete) =>
        (ecResult # 0 <=>
            \E i \in 1 .. Len(encoders) :
                /\ NameMatches(i)
                /\ (ecQuery.version = EmptyStr \/ Glob(ecQuery.version, encoders[i].version)))

\* C7 as amended: for V made of letters, digits, "." and "*", the encoder
\* is a version match exactly if V is empty, or matches the whole version
\* as a glob, or matches as a glob a prefix of the version that is followed
\* by ".".
C7_VersionIsGlobOrDottedPrefix ==
    (Looked /\ ecQuery.op = "GetByString" /\ AllConcrete) =>
        (ecResult # 0 <=>
            \E i \in 1 .. Len(encoders) :
                /\ NameMatches(i)
                /\ (ecQuery.version = EmptyStr
                    \/ GlobOrDottedPrefix(ecQuery.version, encoders[i].version)))

\* "name@2" found the encoder of version 2.3.
C7_Witness ==
    /\ Looked
    /\ ecQuery.op = "GetByString"
    /\ AllConcrete
    /\ ecQuery.version = <<"2">>
    /\ ecResult # 0
    /\ encoders[ecResult].version = <<"2", ".", "3">>

----------------------------------------------------------------------------
(* syft.GetSource: claims *)

\* GetSource has returned after asking its providers.
Returned == gsPc = "done" /\ gsCfg.providersOK

\* Some provider asked so far gave a source.
SourceGiven == \E k \in 1 .. Len(gsCalls) : gsCalls[k].src # NoSource

\* The first provider, in order, that gave a source.
FirstGiven ==
    CHOOSE k \in 1 .. Len(gsCalls) :
        gsCalls[k].src # NoSource /\ \A j \in 1 .. (k - 1) : gsCalls[j].src = NoSource

\* The errors the returned error reports.
Reported ==
    CASE gsResult.err.k = "wrap" -> <<gsResult.err.e>>
      [] gsResult.err.k = "text" -> gsResult.err.parts
      [] OTHER -> << >>

\* C8: the providers are asked one at a time in the configured order; the
\* source returned is that of the first provider that gave one, no provider
\* after it is asked, and no error collected from the providers comes with
\* the source.
C8_FirstSourceWins ==
    /\ \A k \in 1 .. Len(gsCalls) : gsCalls[k].p = k
    /\ SourceGiven => (gsPc = "done" /\ FirstGiven = Len(gsCalls))
    /\ (Returned /\ SourceGiven) =>
        /\ gsResult.src = gsCalls[FirstGiven].src
        /\ Reported = << >>
        /\ gsResult.err.k = "nil" \/ gsResult.err = PlatformError
    /\ (Returned /\ ~SourceGiven) =>
        /\ gsResult.src = NoSource
        /\ Len(gsCalls) = gsCfg.n

\* A later provider gave the source together with an error, an earlier one
\* had failed, and a provider after it was never asked.
C8_Witness ==
    /\ Returned
    /\ SourceGiven
    /\ FirstGiven = 2
    /\ gsCfg.n = 3
    /\ gsCalls[1].err # NilErr
    /\ gsCalls[2].err # NilErr
    /\ gsResult.err = NilErr

\* The leaves of an error.
RECURSIVE Leaves(_)
Leaves(err) ==
    CASE err.k = "leaf" -> {err}
      [] err.k = "wrap" -> Leaves(err.e)
      [] err.k = "join" -> UNION { Leaves(err.es[i]) : i \in 1 .. Len(err.es) }
      [] OTHER -> {}

\* The leaves of the error of call k that are not not-found errors.
OtherLeaves(k) == { l \in Leaves(gsCalls[k].err) : ~l.notExist }

\* The calls whose error holds something other than not-found errors.
CallsWithOther == { k \in 1 .. Len(gsCalls) : OtherLeaves(k) # {} }

\* A provider asked so far returned an error that is or wraps not-found.
NotFoundSeen == \E k \in 1 .. Len(gsCalls) : Leaves(gsCalls[k].err) \ OtherLeaves(k) # {}

\* es holds, in provider order, one error for each call of CallsWithOther:
\* what that provider's error holds besides not-found errors.
InProviderOrder(es) ==
    /\ Len(es) = Cardinality(CallsWithOther)
    /\ \A j \in 1 .. Len(es) :
        \E k \in CallsWithOther :
            /\ Cardinality({ i \in CallsWithOther : i < k }) = j - 1
            /\ Leaves(es[j]) = OtherLeaves(k)

\* C9: a provider error that is or wraps not-found is held back and not
\* accumulated; the other errors are accumulated in provider order; the
\* held-back error is reported only when every provider failed, and then
\* the returned error reports it and every accumulated error.
C9_NotFoundHeldBack ==
    /\ gsPc = "loop" => InProviderOrder(errs)
    /\ NotFoundSeen <=>
        (fileNotfound # NilErr /\ Leaves(fileNotfound) # {}
            /\ \A l \in Leaves(fileNotfound) : l.notExist)
    /\ (Returned /\ SourceGiven) =>
        /\ InProviderOrder(errs)
        /\ Reported = << >>
        /\ ~IsNotExist(gsResult.err)
    /\ (Returned /\ ~SourceGiven) =>
        IF NotFoundSeen
        THEN /\ Reported # << >>
             /\ Reported[1] = fileNotfound
             /\ InProviderOrder(Tail(Reported))
        ELSE InProviderOrder(Reported)

\* Every provider failed, one with a not-found error and one with another
\* error, and the returned error reports both.
C9_Witness ==
    /\ Returned
    /\ ~SourceGiven
    /\ Len(gsCalls) >= 2
    /\ NotFoundSeen
    /\ CallsWithOther # {}
    /\ Len(Reported) >= 2
    /\ Reported[1].k = "leaf"
    /\ Reported[1].notExist

\* C10: with a platform configured, a first source that is not an image
\* source makes GetSource return the "platform specified with non-image
\* source" error without asking another provider; with an image source or
\* without a platform the error is nil.
C10_PlatformNeedsImage ==
    (Returned /\ SourceGiven) =>
        LET meta == gsCalls[FirstGiven].src
            image == meta = "ImageMetadata" \/ meta = "*ImageMetadata"
        IN  /\ (gsCfg.platform /\ ~image) =>
                /\ gsResult.err = PlatformError
                /\ Len(gsCalls) = FirstGiven
            /\ (~gsCfg.platform \/ image) => gsResult.err = NilErr

\* A platform was configured, the first source was a directory, and a
\* provider was left unasked.
C10_Witness ==
    /\ Returned
    /\ SourceGiven
    /\ gsCfg.platform
    /\ gsCalls[FirstGiven].src = "DirectoryMetadata"
    /\ gsResult.err = PlatformError
    /\ Len(gsCalls) < gsCfg.n

----------------------------------------------------------------------------
(* file.UnzipToDir: claims *)

\* The cleaned path lies in the directory tree rooted at root: root itself
\* or a path below it.
InsideTree(root, path) ==
    LET r == filepathClean(root)
        q == filepathClean(path)
    IN  IF r = <<".">>
        THEN ~Rooted(q) /\ (Len(q) < 2 \/ SubSeq(q, 1, 2) # <<".", ".">>
                              \/ (Len(q) > 2 /\ q[3] # "/"))
        ELSE IF r = <<"/">>
        THEN Rooted(q)
        ELSE q = r \/ HasPrefix(q, r \o <<"/">>)

\* C11: UnzipToDir writes nothing outside the tree rooted at targetDir; an
\* entry whose joined and cleaned name lies outside it gets the zip-slip
\* error and nothing is written for it.
C11_NothingWrittenOutside ==
    /\ \A path \in zxWritten : InsideTree(zxTarget, path)
    /\ \A i \in 1 .. Len(zxLog) :
        ~InsideTree(zxTarget, filepathJoin(zxTarget, zxEntries[i].name)) =>
            (zxLog[i].err = "errZipSlipDetected" /\ ~zxLog[i].wrote)

----------------------------------------------------------------------------
(* file.OpenZip: claims *)

\* C12: for an archive preceded by N bytes findArchiveStartOffset succeeds
\* and returns N, and OpenZip reads the archive from offset N.
C12_StartOffsetIsPrefixLength ==
    zoPc = "done" => (zoResult.err = "nil" /\ zoResult.offset = zoFile.prefix)

----------------------------------------------------------------------------
(* sbom.SBOM: claims *)

\* The relationships with both endpoints whose From endpoint has p's ID.
FromPackage(relationships, p) ==
    SelectSeq(relationships,
              LAMBDA r : r.From.kind # "nil" /\ r.To.kind # "nil" /\ r.From.id = p.id)

\* C13: without relationship types, RelationshipsForPackage(p) returns
\* every relationship from p, whatever its type among the five, and
\* CoordinatesForPackage(p) the coordinates of all of them (relationships
\* with a nil endpoint aside).
C13_NoTypesMeansAllTypes ==
    /\ (sbCall.op = "RelationshipsForPackage" /\ sbCall.rt = << >>) =>
        sbResult.value = FromPackage(sbCall.before, sbCall.p)
    /\ (sbCall.op = "CoordinatesForPackage" /\ sbCall.rt = << >>) =>
        sbResult.value = coordinatesOf(FromPackage(sbCall.before, sbCall.p))

\* The sort key of a relationship.
SortKey(r) == <<r.From.id, r.To.id, r.Type>>

\* Key a comes before key b: by From ID, then To ID, then type.
KeyBefore(a, b) ==
    \/ a[1] < b[1]
    \/ a[1] = b[1] /\ a[2] < b[2]
    \/ a[1] = b[1] /\ a[2] = b[2] /\ TypeLess(a[3], b[3])

\* RelationshipsSorted has returned.
SortedReturned == sbCall.op = "RelationshipsSorted" /\ ~sbResult.panicked

\* C14: what RelationshipsSorted returns is ordered ascending by (From ID,
\* To ID, type), holds for every key the relationships of the SBOM with
\* that key in their original order (so it is a permutation of them), and
\* is what another call returns.
C14_SortedStable ==
    SortedReturned =>
        /\ Len(sbResult.value) = Len(sbCall.before)
        /\ \A i, j \in 1 .. Len(sbResult.value) :
            i < j => ~KeyBefore(SortKey(sbResult.value[j]), SortKey(sbResult.value[i]))
        /\ \A r \in Range(sbCall.before) :
            SelectSeq(sbResult.value, LAMBDA x : SortKey(x) = SortKey(r))
                = SelectSeq(sbCall.before, LAMBDA x : SortKey(x) = SortKey(r))
        /\ sbRelationships = sbResult.value
        /\ SliceStable(sbRelationships).data = sbResult.value

\* A sort that moved relationships and kept two with equal keys in order.
C14_Witness ==
    /\ SortedReturned
    /\ Len(sbResult.value) = 3
    /\ sbResult.value # sbCall.before
    /\ \E i, j \in 1 .. 3 :
        /\ i < j
        /\ SortKey(sbCall.before[i]) = SortKey(sbCall.before[j])
        /\ sbCall.before[i] # sbCall.before[j]
    /\ \E i, j \in 1 .. 3 :
        /\ sbResult.value[i].From = sbResult.value[j].From
        /\ sbResult.value[i].To = sbResult.value[j].To
        /\ sbResult.value[i].Type # sbResult.value[j].Type

----------------------------------------------------------------------------
(* The order of the CPEs *)

\* The two CPEs differ in source or in formatted string.
SourceOrBoundDiffer(x, y) ==
    \/ x.Source # y.Source
    \/ BindToFmtString(x.Attributes) # BindToFmtString(y.Attributes)

\* x is before y by source priority, then by the higher weighted score, then
\* by the longer fields, then by the formatted string.
BeforeByKeys(x, y) ==
    LET xScore == weightedCountForSpecifiedFields(x.Attributes)
        yScore == weightedCountForSpecifiedFields(y.Attributes)
        xLength == countFieldLength(x.Attributes)
        yLength == countFieldLength(y.Attributes)
    IN  \/ getRank(x.Source) < getRank(y.Source)
        \/ /\ getRank(x.Source) = getRank(y.Source)
           /\ \/ xScore > yScore
              \/ /\ xScore = yScore
                 /\ \/ xLength > yLength
                    \/ /\ xLength = yLength
                       /\ stringLess(BindToFmtString(x.Attributes),
                                     BindToFmtString(y.Attributes))

\* C15: Less is a strict total order on the CPEs that differ in source or in
\* formatted string: no CPE is less than itself, Less is transitive, of two
\* CPEs that differ in source or formatted string exactly one is less than the
\* other, and Less is the comparison by source priority, weighted score,
\* field length and formatted string.
C15_StrictTotalOrder ==
    coLess # << >> =>
        /\ \A i \in DOMAIN coB : ~coLess[i][i]
        /\ \A i, j, k \in DOMAIN coB :
               (coLess[i][j] /\ coLess[j][k]) => coLess[i][k]
        /\ \A i, j \in DOMAIN coB :
               /\ SourceOrBoundDiffer(coB[i], coB[j]) => (coLess[i][j] # coLess[j][i])
               /\ coLess[i][j] = BeforeByKeys(coB[i], coB[j])

\* The two CPEs differ in source priority or in formatted string.
RankOrBoundDiffer(x, y) ==
    \/ getRank(x.Source) # getRank(y.Source)
    \/ BindToFmtString(x.Attributes) # BindToFmtString(y.Attributes)

\* C15, amended: Less is a strict order that is total on the CPEs that
\* differ in source priority or in formatted string: no CPE is less than
\* itself, Less is transitive, of two CPEs that differ in source priority or
\* formatted string exactly one is less than the other, and Less is the
\* comparison by source priority, weighted score, field length and formatted
\* string. Of two CPEs with the same attributes and sources of the same
\* priority, such as two different sources that are none of the three named
\* ones, neither is less than the other.
C15_StrictOrderWithTies ==
    coLess # << >> =>
        /\ \A i \in DOMAIN coB : ~coLess[i][i]
        /\ \A i, j, k \in DOMAIN coB :
               (coLess[i][j] /\ coLess[j][k]) => coLess[i][k]
        /\ \A i, j \in DOMAIN coB :
               /\ RankOrBoundDiffer(coB[i], coB[j]) => (coLess[i][j] # coLess[j][i])
               /\ (/\ getRank(coB[i].Source) = getRank(coB[j].Source)
                   /\ coB[i].Attributes = coB[j].Attributes)
                      => (~coLess[i][j] /\ ~coLess[j][i])
               /\ coLess[i][j] = BeforeByKeys(coB[i], coB[j])

\* Less was called on two CPEs of different sources that tie, and on a third
\* of the same source, score and length as the first, after it by its
\* formatted string.
C15_Witness ==
    /\ coLess # << >>
    /\ \E i, j, k \in DOMAIN coB :
           /\ coB[i].Source # coB[j].Source
           /\ ~coLess[i][j] /\ ~coLess[j][i]
           /\ coB[k].Source = coB[i].Source
           /\ weightedCountForSpecifiedFields(coB[k].Attributes)
                  = weightedCountForSpecifiedFields(coB[i].Attributes)
           /\ countFieldLength(coB[k].Attributes) = countFieldLength(coB[i].Attributes)
           /\ coLess[i][k] /\ ~coLess[k][i]

----------------------------------------------------------------------------
(* Merge *)

\* The key by which the CPEs are compared: source and formatted string.
SourceAndBound(c) == <<c.Source, BindToFmtString(c.Attributes)>>

KeysOf(list) == { SourceAndBound(list[n]) : n \in DOMAIN list }

CountOfKey(list, k) ==
    Cardinality({ n \in DOMAIN list : SourceAndBound(list[n]) = k })

\* The last two calls were Merge(a, b) and Merge(b, a).
SwappedCalls ==
    /\ mgResult.called
    /\ mgResult.before.called
    /\ mgResult.a = mgResult.before.b
    /\ mgResult.b = mgResult.before.a

\* The last two calls had the same arguments.
RepeatedCalls ==
    /\ mgResult.called
    /\ mgResult.before.called
    /\ mgResult.a = mgResult.before.a
    /\ mgResult.b = mgResult.before.b

\* C16: Merge(a, b) and Merge(b, a) are equal as multisets of (source,
\* formatted string): each holds exactly one element for each key that occurs
\* in a or in b, and no other element.
C16_MergeCommutesByKey ==
    SwappedCalls =>
        LET keys == KeysOf(mgResult.a \o mgResult.b)
            ab == mgResult.value
            ba == mgResult.before.value
        IN  \A k \in keys \cup KeysOf(ab) \cup KeysOf(ba) :
                /\ CountOfKey(ab, k) = CountOfKey(ba, k)
                /\ CountOfKey(ab, k) = (IF k \in keys THEN 1 ELSE 0)

\* Merge(a, b) and Merge(b, a) were called with a key that a and b both
\* hold, with different CPEs, and returned different sequences.
C16_Witness ==
    /\ SwappedCalls
    /\ mgResult.value # mgResult.before.value
    /\ \E n \in DOMAIN mgResult.a, m \in DOMAIN mgResult.b :
           /\ SourceAndBound(mgResult.a[n]) = SourceAndBound(mgResult.b[m])
           /\ mgResult.a[n] # mgResult.b[m]
    /\ Len(mgResult.value) >= 2

\* For every key, the result holds the last CPE of a followed by b with it.
LastOccurrenceKept(call) ==
    LET all == call.a \o call.b
    IN  \A n \in DOMAIN all :
            (\A m \in DOMAIN all :
                 SourceAndBound(all[m]) = SourceAndBound(all[n]) => m <= n)
            => \E r \in DOMAIN call.value : call.value[r] = all[n]

\* No element of the result is less than one before it.
SortedByLess(call) ==
    \A n, m \in DOMAIN call.value : n < m => ~Less(call.value, m, n)

\* C17: Merge(a, b) keeps, of the CPEs with the same source and formatted
\* string, the last one of a followed by b; its result is sorted by
\* BySourceThenSpecificity; and two calls with the same a and b return the
\* same sequence, whatever the order of the map's iteration.
C17_LastKeptSortedDeterministic ==
    mgResult.called =>
        /\ LastOccurrenceKept(mgResult)
        /\ SortedByLess(mgResult)
        /\ RepeatedCalls => mgResult.value = mgResult.before.value

----------------------------------------------------------------------------
(* The selection expressions *)

\* All the characters of the expressions, with a comma between expressions.
RECURSIVE JoinedByComma(_)
JoinedByComma(expressions) ==
    IF expressions = << >> THEN << >>
    ELSE IF Len(expressions) = 1 THEN expressions[1]
    ELSE expressions[1] \o <<",">> \o JoinedByComma(Tail(expressions))

\* The token that starts at position i of text and ends at position j: it
\* has no comma, no white space at either end, is not empty, and only white
\* space lies between it and the commas (or ends of text) around it.
IsTokenAt(text, i, j) ==
    /\ i <= j
    /\ \A n \in i..j : text[n] # ","
    /\ text[i] # " " /\ text[j] # " "
    /\ \E lo \in 0..(i - 1) :
           /\ lo = 0 \/ text[lo] = ","
           /\ \A n \in (lo + 1)..(i - 1) : text[n] = " "
    /\ \E hi \in (j + 1)..(Len(text) + 1) :
           /\ hi = Len(text) + 1 \/ text[hi] = ","
           /\ \A n \in (j + 1)..(hi - 1) : text[n] = " "

\* The tokens of text of a kind ("+", "-", or "" for the others), in their
\* order, the ones of kind "+" or "-" without their first character.
RECURSIVE TokensOfKind(_, _, _)
TokensOfKind(text, kind, from) ==
    IF \A i \in from..Len(text), j \in from..Len(text) : ~IsTokenAt(text, i, j)
    THEN << >>
    ELSE LET i == CHOOSE n \in from..Len(text) :
                      /\ \E j \in n..Len(text) : IsTokenAt(text, n, j)
                      /\ \A m \in from..(n - 1) : \A j \in m..Len(text) :
                             ~IsTokenAt(text, m, j)
             j == CHOOSE n \in i..Len(text) : IsTokenAt(text, i, n)
             tokenKind == IF text[i] \in {"+", "-"} THEN text[i] ELSE ""
             token == IF tokenKind = "" THEN SubSeq(text, i, j)
                      ELSE SubSeq(text, i + 1, j)
         IN  (IF tokenKind = kind THEN <<token>> ELSE << >>)
                 \o TokensOfKind(text, kind, j + 1)

\* C18: WithExpression splits the expressions on commas, trims each token,
\* drops the empty ones, and appends the tokens in their order: the ones
\* that start with "+" to AddNames and the ones that start with "-" to
\* RemoveNamesOrTags, both without that character, the others to
\* SubSelectTags. DefaultNamesOrTags and the entries the request had are kept.
C18_WithExpressionRoutes ==
    srCall.op = "WithExpression" =>
        LET text == JoinedByComma(srCall.expressions)
        IN  /\ srRequest.DefaultNamesOrTags = srCall.before.DefaultNamesOrTags
            /\ srRequest.AddNames
                   = srCall.before.AddNames \o TokensOfKind(text, "+", 1)
            /\ srRequest.RemoveNamesOrTags
                   = srCall.before.RemoveNamesOrTags \o TokensOfKind(text, "-", 1)
            /\ srRequest.SubSelectTags
                   = srCall.before.SubSelectTags \o TokensOfKind(text, "", 1)

\* WithExpression was called on a request with entries, with two
\* expressions that hold an empty token, a token with white space around it,
\* and tokens of two kinds.
C18_Witness ==
    /\ srCall.op = "WithExpression"
    /\ srCall.before.AddNames # << >>
    /\ Len(srCall.expressions) = 2
    /\ \E e \in Range(srCall.expressions) :
           \E piece \in Range(Split(e, ",")) : TrimSpace(piece) = << >>
    /\ \E e \in Range(srCall.expressions) :
           \E piece \in Range(Split(e, ",")) :
               TrimSpace(piece) # << >> /\ TrimSpace(piece) # piece
    /\ Len(srRequest.AddNames) > Len(srCall.before.AddNames)
    /\ Len(srRequest.SubSelectTags) > Len(srCall.before.SubSelectTags)

----------------------------------------------------------------------------
(* The annotations of the entries of a LocationSet *)

\* C19: after locations with the same key were added one after the other,
\* the annotations stored for the entry are the ones of all the locations
\* added with that key, and an annotation key that was given several values
\* has the value of the earliest Add; every Add is carried out and leaves the
\* entry and its other annotations in place.
C19_FirstAnnotationKept ==
    /\ ~anPanicked
    /\ DOMAIN anSet = DOMAIN anAdded
    /\ \A data \in DOMAIN anSet : MapAt(anHeap, anSet[data]) = anAdded[data]

----------------------------------------------------------------------------
(* The hash of a LocationSet *)

\* The coordinates a LocationSet holds.
CoordinatesHeld(s) == { l.Coordinates : l \in DOMAIN s.set }

\* C20: Hash depends on the coordinates of the set only: two sets that hold
\* the same coordinates have the same hash, whatever their access paths and
\* annotations and the order of their entries, and the paths that are hashed
\* are in ascending order, each once.
C20_HashOfCoordinatesOnly ==
    /\ \A i \in DOMAIN hsSets :
           hsResult[i].called =>
               /\ hsResult[i].err = "nil"
               /\ \A n, m \in DOMAIN hsResult[i].paths :
                      n < m => pathLess(hsResult[i].paths[n], hsResult[i].paths[m])
               /\ Range(hsResult[i].paths)
                      = { c.RealPath : c \in CoordinatesHeld(hsSets[i]) }
    /\ (/\ hsResult[1].called
        /\ hsResult[2].called
        /\ CoordinatesHeld(hsSets[1]) = CoordinatesHeld(hsSets[2]))
           => hsResult[1].hash = hsResult[2].hash

\* Both sets were hashed; they hold the same coordinates, in two layers and
\* at two paths, but not the same locations nor the same annotations.
C20_Witness ==
    /\ hsResult[1].called
    /\ hsResult[2].called
    /\ CoordinatesHeld(hsSets[1]) = CoordinatesHeld(hsSets[2])
    /\ Cardinality(CoordinatesHeld(hsSets[1])) = 3
    /\ DOMAIN hsSets[1].set # DOMAIN hsSets[2].set
    /\ \E l \in DOMAIN hsSets[1].set \cap DOMAIN hsSets[2].set :
           hsSets[1].set[l] # hsSets[2].set[l]
    /\ Len(hsResult[1].paths) = 2

----------------------------------------------------------------------------
(* C21 *)

\* The file of a location fails in one of the ways the cataloger skips:
\* its contents cannot be opened, fewer than 512 bytes can be read, its
\* first bytes match no format, or it is ELF and its features cannot be read.
FailingFile(f) ==
    \/ ~f.open
    \/ f.size < 512
    \/ ~(isMacho(f.head) \/ isPE(f.head) \/ isELF(f.head))
    \/ (isELF(f.head) /\ ~isMacho(f.head) /\ ~isPE(f.head) /\ ~f.features)

\* The file of a location is a PE or Mach-O file that can be read in full.
ReadablePEOrMachO(f) ==
    /\ f.open /\ f.union /\ f.size > 512
    /\ (isMacho(f.head) \/ isPE(f.head))

\* The last location at coordinates c for which the loop made an entry.
LastEntryAt(c) ==
    CHOOSE i \in 1..Len(exLog) :
        /\ exLog[i] = "entry" /\ exCfg.locs[i].Coordinates = c
        /\ \A j \in (i + 1)..Len(exLog) :
               ~(exLog[j] = "entry" /\ exCfg.locs[j].Coordinates = c)

\* C21: when the lookups succeed Catalog visits every candidate location and
\* returns no error; a file that cannot be opened, is shorter than 512 bytes,
\* matches no format or is ELF with unreadable features gets no entry and the
\* other files keep theirs; a readable PE or Mach-O file gets an entry, and
\* the security features of such an entry are null.
C21_FailuresSkipped ==
    (exPc = "done" /\ ~exCfg.mimeErr /\ ~exCfg.globErr) =>
        /\ exReturn.err = "nil"
        /\ Len(exLog) = Len(exCfg.locs)
        /\ \A i \in 1..Len(exCfg.locs) :
               /\ FailingFile(exCfg.locs[i].file) => exLog[i] # "entry"
               /\ ReadablePEOrMachO(exCfg.locs[i].file) => exLog[i] = "entry"
        /\ DOMAIN exReturn.results =
               { exCfg.locs[i].Coordinates :
                   i \in { j \in 1..Len(exLog) : exLog[j] = "entry" } }
        /\ \A c \in DOMAIN exReturn.results :
               LET f == exCfg.locs[LastEntryAt(c)].file
                   e == exReturn.results[c]
               IN  /\ e.Format = (IF isMacho(f.head) THEN MachO
                                  ELSE IF isPE(f.head) THEN PE ELSE ELF)
                   /\ e.Format \in {PE, MachO} => e.SecurityFeatures = "nil"
                   /\ e.Format = ELF => e.SecurityFeatures # "nil"

\* Catalog has returned for an ELF file whose features cannot be read
\* followed by a PE file at other coordinates: only the second has an entry.
C21_Witness ==
    /\ exPc = "done"
    /\ exReturn.err = "nil"
    /\ Len(exCfg.locs) = 2
    /\ LET f == exCfg.locs[1].file
       IN  f.open /\ f.union /\ f.size > 512 /\ isELF(f.head) /\ ~f.features
    /\ ReadablePEOrMachO(exCfg.locs[2].file)
    /\ isPE(exCfg.locs[2].file.head)
    /\ exCfg.locs[1].Coordinates # exCfg.locs[2].Coordinates
    /\ DOMAIN exReturn.results = {exCfg.locs[2].Coordinates}
    /\ exReturn.results[exCfg.locs[2].Coordinates].SecurityFeatures = "nil"

----------------------------------------------------------------------------
(* C22 *)

\* The stream rewound to its start.
Rewound(st) == [st EXCEPT !.pos = 0]

\* C22: on a stream that can seek, whatever calls came before and wherever
\* they left the read position, every read that Identify and Decode of the
\* SPDX JSON decoder make starts at offset 0, and what they return is what
\* they return on the stream at its start.
C22_ReadsFromStart ==
    (sqStream.seekOK /\ sqCall.op \in {"Identify", "Decode"}) =>
        /\ \A i \in 1..Len(sqCall.reads) : sqCall.reads[i] = 0
        /\ sqCall.op = "Identify" =>
               /\ sqCall.reads # << >>
               /\ sqCall.id = spdxIdentify(Rewound(sqStream)).id
               /\ sqCall.version = spdxIdentify(Rewound(sqStream)).version
        /\ sqCall.op = "Decode" =>
               /\ sqCall.reads # << >>
               /\ sqCall.result = spdxDecode(Rewound(sqStream))
               /\ (sqCall.result.err = NoError => Len(sqCall.reads) = 2)

\* Decode was called on a stream whose read position earlier calls had left
\* past the start, and decoded the document.
C22_Witness ==
    /\ sqStream.seekOK
    /\ sqN = MaxCalls
    /\ sqCall.op = "Decode"
    /\ sqCall.found # 0
    /\ sqCall.result.sbom # NoSBOM
    /\ sqCall.result.err = NoError

----------------------------------------------------------------------------
(* C23, C25 *)

\* A field of the 32 bit directory end record holds its ZIP64 sentinel.
HoldsSentinel(d) ==
    \/ d.directoryRecords = Max16
    \/ d.directorySize = Max32
    \/ d.directoryOffset = Max32

\* The ZIP64 locator and the record it points to are there to be read.
Zip64Found(f) ==
    /\ f.directoryEndOffset - directory64LocLen >= 0
    /\ f.loc = "locator"
    /\ f.p + directory64EndLen <= recordFileSize(f)
    /\ f.end64

\* C23: when a field of the directory end record holds its ZIP64 sentinel
\* (0xFFFF records, 0xFFFFFFFF directory size or offset) the ZIP64 locator is
\* looked for, and when it is found the values of the ZIP64 record are the
\* ones the start offset is computed from.
C23_SentinelsLeadToZip64 ==
    (zrPc = "done" /\ HoldsSentinel(zrIn.d)) =>
        /\ zrOut.looked
        /\ Zip64Found(zrIn) => zrOut.d = zrIn.d64

\* C25: when findArchiveStartOffset returns without error the start offset
\* is at most the size of the file and the subtraction did not wrap.
C25_StartOffsetWithinFile ==
    (zrPc = "done" /\ zrOut.err = "nil") =>
        /\ ~zrOut.wrapped
        /\ ~less64(uint64(recordFileSize(zrIn)), zrOut.startOfArchive)

----------------------------------------------------------------------------
(* C24 *)

\* C24: GetSource never returns a nil source together with a nil error:
\* when no provider gives a source, with no providers or with providers that
\* return neither source nor error included, the error is not nil.
C24_NoSourceMeansError ==
    (gsPc = "done" /\ gsResult.src = NoSource) => gsResult.err # NilErr

----------------------------------------------------------------------------
(* C26 *)

\* C26: when OpenZip fails no file handle is left open; when it succeeds the
\* handle is open until Close is called on the ZipReadCloser, which closes it.
C26_NoHandleLeftOpen ==
    /\ (ohResult.op # "none" /\ ohResult.err # "nil") => ohHandle # "open"
    /\ (ohPc \in {"held", "loop"}) => (ohResult.err = "nil" /\ ohHandle = "open")
    /\ (ohPc = "done" /\ ohResult.err = "nil") => ohHandle = "closed"

----------------------------------------------------------------------------
(* C27 *)

\* C27: WithAnnotation(key, value) returns a location that carries the
\* annotation and leaves the receiver as it was: the annotations of the
\* caller's location and of the LocationSet entry that shares it are the same
\* after the call as before; newDBPackage and newArchivePackage do not alter
\* the annotations of the location they are passed.
C27_ReceiverUnchanged ==
    waCall.op # "none" =>
        /\ waCall.key \in DOMAIN MapAt(waHeap, waCall.returned)
        /\ MapAt(waHeap, waCall.returned)[waCall.key] = waCall.value
        /\ MapAt(waHeap, waOrig) = MapAt(waCall.before, waOrig)
        /\ MapAt(waHeap, waEntry) = MapAt(waCall.before, waEntry)

----------------------------------------------------------------------------
(* C28 *)

\* C28: RelationshipsSorted leaves the SBOM as it was: the relationships of
\* the caller's slice are in the same order after the call as before.
C28_RelationshipsUntouched ==
    SortedReturned => sbRelationships = sbCall.before

----------------------------------------------------------------------------
(* C29 *)

\* Every file coordinate the SBOM refers to.
ReferredTo(s) ==
    s.FileMetadata \cup s.FileDigests \cup s.FileContents \cup s.FileLicenses
        \cup s.Executables
        \cup { Coordinates(r.From.RealPath, r.From.FileSystemID) :
                 r \in { x \in Range(s.Relationships) : x.From.kind = "coordinates" } }
        \cup { Coordinates(r.To.RealPath, r.To.FileSystemID) :
                 r \in { x \in Range(s.Relationships) : x.To.kind = "coordinates" } }

\* The slice ascends strictly by real path, then filesystem ID.
AscendingCoordinates(value) ==
    \A i, j \in 1..Len(value) :
        i < j =>
            \/ pathLess(value[i].RealPath, value[j].RealPath)
            \/ /\ value[i].RealPath = value[j].RealPath
               /\ pathLess(value[i].FileSystemID, value[j].FileSystemID)

\* C29: AllCoordinates returns, sorted by real path then filesystem ID and
\* without duplicates, every coordinate that is a key of FileMetadata,
\* FileDigests, FileContents, FileLicenses or Executables or an endpoint of a
\* relationship.
C29_AllCoordinatesComplete ==
    acResult.called =>
        /\ AscendingCoordinates(acResult.value)
        /\ Range(acResult.value) = ReferredTo(acSBOM)

----------------------------------------------------------------------------
(* C30 *)

\* The versions of a format the configuration asks for.
VersionsAsked(cfg, format) ==
    IF cfg.version[format] = AllVersions THEN SupportedVersions(format)
    ELSE <<cfg.version[format]>>

\* The encoders of a format whose constructor succeeds, in order.
Constructed(cfg, format) ==
    LET ok == SelectSeq(VersionsAsked(cfg, format),
                        LAMBDA v : ~constructorFails(cfg, format, v))
    IN  [i \in 1..Len(ok) |-> FormatEncoder(format, ok[i])]

\* A constructor of the configuration fails.
SomeConstructorFails(cfg) ==
    \/ cfg.Template = "fail"
    \/ cfg.SyftJSON = "fail"
    \/ \E f \in MultiVersionFormats :
           \E i \in 1..Len(VersionsAsked(cfg, f)) :
               constructorFails(cfg, f, VersionsAsked(cfg, f)[i])

\* C30: Encoders builds for each multi-version format one encoder per
\* supported version under all-versions and one otherwise; when a constructor
\* fails the error is not nil and the result holds every encoder that was
\* constructed, the other versions of the same format and the encoders of
\* the other formats included.
C30_PartialFailureKeepsRest ==
    enResult.called =>
        /\ SomeConstructorFails(enCfg) <=> enResult.err # << >>
        /\ \A f \in MultiVersionFormats :
               SelectSeq(enResult.encoders, LAMBDA e : e[1] = f) = Constructed(enCfg, f)
        /\ \A f \in {TableID, TextID, GithubID} :
               SelectSeq(enResult.encoders, LAMBDA e : e[1] = f) = <<FormatEncoder(f, "")>>

====
